---- MODULE Spec2Model ----
(***************************************************************************)
(* The GitHub connector of dex (package github): Config.Open, LoginURL,    *)
(* HandleCallback, Refresh, the group resolution (groupsForOrgs,           *)
(* teamsForOrg, userGroups), the e-mail resolution (user, userEmail) and   *)
(* the paginated fetcher (get, getPagination).                             *)
(*                                                                         *)
(* One invocation runs at a time.  Every outbound HTTP call is one step:   *)
(* the step issues the request, draws the upstream's answer from a small   *)
(* set, and runs the handler's code up to its next outbound call or its    *)
(* return.  Text that the code cuts or splits (e-mail addresses, JSON) is  *)
(* a sequence of chunks; text it only concatenates is a TLA+ string.       *)
(***************************************************************************)
EXTENDS Integers, Sequences, FiniteSets, TLC

VARIABLES
    c,      \* the githubConnector built by Config.Open (never written again)
    call,   \* the running invocation: entry point, scopes, arguments
    pc,     \* the outbound call the invocation is about to issue, or idle/done
    loc,    \* the local variables of the functions on the call stack
    ret,    \* what the entry point returned: value and error
    log,    \* the outbound calls issued by the running invocation, in order
    resp,   \* the URL and Link header of the last response that get() decoded
    wf,     \* history of the running crawl: the page counts n such that every
            \* answer so far is a page of an n-page collection with correct headers
    session, \* the identity the server keeps for the user, and the token
            \* that the code exchange of its login obtained
    other   \* a second invocation on the same connector, while it does not
            \* run: its call, pc, loc, ret, log, resp and wf

vars == <<c, call, pc, loc, ret, log, resp, wf, session, other>>

-----------------------------------------------------------------------------
(* Bounds of the model.                                                    *)

\* Page URLs an upstream Link header can name: page 1 .. page MaxPage.
MaxPage == 2
\* GETs one crawl may issue before the model stops following it.
MaxGets == 3

-----------------------------------------------------------------------------
(* Sequence helpers.                                                       *)

RECURSIVE Flatten(_)
Flatten(ss) == IF ss = <<>> THEN <<>> ELSE Head(ss) \o Flatten(Tail(ss))

RECURSIVE SelectSeqBy(_, _)
\* the subsequence of the elements of q that are in the set S
SelectSeqBy(q, S) ==
    IF q = <<>> THEN <<>>
    ELSE (IF Head(q) \in S THEN <<Head(q)>> ELSE <<>>) \o SelectSeqBy(Tail(q), S)

Range(q) == {q[i] : i \in 1..Len(q)}

\* index of the first element of q satisfying "is x", 0 when there is none
FirstIndex(q, x) ==
    IF \E i \in 1..Len(q) : q[i] = x
    THEN CHOOSE i \in 1..Len(q) : q[i] = x /\ \A j \in 1..(i-1) : q[j] # x
    ELSE 0

-----------------------------------------------------------------------------
(* Constants of the package.                                               *)

apiURL == "https://api.github.com"
scopeEmail == "user:email"
scopeOrgs == "read:org"

StatusOK == 200
StatusNoContent == 204
StatusFound == 302
StatusNotFound == 404
StatusInternalServerError == 500

-----------------------------------------------------------------------------
(* The Link header and getPagination.                                      *)

\* The URL of page k of the collection at base: the crawl starts at base.
PageURL(base, k) == IF k = 1 THEN base ELSE base \o "?page=" \o ToString(k)

PageURLs(base) == {PageURL(base, k) : k \in 1..MaxPage}

Rels == {"next", "last"}

\* A Link header is a list of <url>; rel="name" entries.  The headers drawn
\* here name each relation at most once, in either order.
LinkHeaders(base) ==
    LET E == [url : PageURLs(base), rel : Rels]
    IN  {<<>>} \cup {<<e>> : e \in E}
               \cup {q \in E \X E : q[1].rel # q[2].rel}

\* regexp.FindStringSubmatch: the URL of the first entry tagged rel, or ""
\* when no entry matches (the pattern's [^>]+ never matches an empty URL).
FindStringSubmatch(rel, links) ==
    LET hit == {i \in 1..Len(links) : links[i].rel = rel}
    IN  IF hit = {} THEN ""
        ELSE links[CHOOSE i \in hit : \A j \in hit : i <= j].url

reNext(links) == FindStringSubmatch("next", links)
reLast(links) == FindStringSubmatch("last", links)

\* the mutants of getPagination used by the checks below
getPaginationStopsBeforeLast(url, links) ==
    IF reLast(links) # ""
    THEN IF reNext(links) = reLast(links) THEN "" ELSE reNext(links)
    ELSE ""

getPaginationNoLastGuard(url, links) == reNext(links)

getPaginationIgnoresCurrent(url, links) ==
    IF reLast(links) # "" THEN reNext(links) ELSE ""

getPagination(url, links) ==
    IF reLast(links) # ""
    THEN IF url = reLast(links) THEN "" ELSE reNext(links)
    ELSE ""

-----------------------------------------------------------------------------
(* Text that the code cuts or splits is a sequence of chunks; the          *)
(* separators "@", "." and "/" are chunks of their own.                    *)

RECURSIVE Join(_)
\* the chunks of q as one string
Join(q) == IF q = <<>> THEN "" ELSE Head(q) \o Join(Tail(q))

\* strings.Contains(q, sep) for a one-chunk separator
Contains(q, sep) == sep \in Range(q)

\* strings.HasSuffix(q, suffix) for a one-chunk suffix
HasSuffix(q, suffix) == q # <<>> /\ q[Len(q)] = suffix

\* strings.Cut(q, sep): the text before and after the first sep
Cut(q, sep) ==
    LET i == FirstIndex(q, sep)
    IN  IF i = 0 THEN [before |-> q, after |-> <<>>, found |-> FALSE]
        ELSE [before |-> SubSeq(q, 1, i - 1),
              after  |-> SubSeq(q, i + 1, Len(q)),
              found  |-> TRUE]

RECURSIVE Split(_, _)
\* strings.Split(q, sep): the pieces between the separators, at least one
Split(q, sep) ==
    LET p == Cut(q, sep)
    IN  IF p.found THEN <<p.before>> \o Split(p.after, sep) ELSE <<q>>

-----------------------------------------------------------------------------
(* Errors.  A Go error is nil, an error with a message, or *oauth2Error.    *)

nil == [kind |-> "nil", error |-> "", errorDescription |-> ""]

Errorf(msg) == [kind |-> "error", error |-> msg, errorDescription |-> ""]

oauth2Error(errType, description) ==
    [kind |-> "oauth2Error", error |-> errType, errorDescription |-> description]

\* fmt.Errorf(prefix + "%v", e): the wrapped error's text is e's Error()
ErrorText(e) ==
    IF e.kind = "oauth2Error" /\ e.errorDescription # ""
    THEN e.error \o ": " \o e.errorDescription
    ELSE e.error

Wrap(prefix, e) == Errorf(prefix \o ErrorText(e))

-----------------------------------------------------------------------------
(* Config and Config.Open.                                                 *)

Org(name, teams) == [Name |-> name, Teams |-> teams]

\* A configuration with every optional field left out.
Config0 ==
    [ClientID |-> "client", ClientSecret |-> "secret",
     RedirectURI |-> "https://dex.example/callback",
     Org |-> "", Orgs |-> <<>>, HostName |-> <<>>, RootCA |-> "",
     TeamNameField |-> "", LoadAllGroups |-> FALSE, UseLoginAsID |-> FALSE,
     PreferredEmailDomain |-> <<>>, NoreplyPrivateEmail |-> FALSE]

\* httpclient.NewHTTPClient([]string{rootCA}, false): trusts these roots only
NewHTTPClient(rootCAs) == [rootCAs |-> rootCAs]

NoHTTPClient == [rootCAs |-> {}]

\* the name of a root certificate file that NewHTTPClient cannot read
UnreadableFile == "missing.pem"

NoConnector ==
    [redirectURI |-> "", org |-> "", orgs |-> <<>>, clientID |-> "",
     clientSecret |-> "", apiURL |-> "", hostName |-> <<>>, rootCA |-> "",
     httpClient |-> NoHTTPClient, teamNameField |-> "", loadAllGroups |-> FALSE,
     useLoginAsID |-> FALSE, preferredEmailDomain |-> <<>>,
     noreplyPrivateEmail |-> FALSE]

bothOrgAndOrgsSeveral(cfg) == cfg.Org # "" /\ Len(cfg.Orgs) > 1

\* Config.Open lines 546-549: both the legacy org and the org list
bothOrgAndOrgs(cfg) == cfg.Org # "" /\ Len(cfg.Orgs) > 0

hostNameHasSlashLast(cfg) == cfg.HostName # <<>> /\ HasSuffix(cfg.HostName, "/")

\* Config.Open lines 567-570: a host name that is a URL or a path
hostNameHasSlash(cfg) == cfg.HostName # <<>> /\ Contains(cfg.HostName, "/")

globEndsWithStarLabel(cfg) ==
    /\ Len(cfg.PreferredEmailDomain) > 1
    /\ cfg.PreferredEmailDomain[Len(cfg.PreferredEmailDomain) - 1] = "."
    /\ HasSuffix(cfg.PreferredEmailDomain, "*")

\* Config.Open lines 597-600: a glob that ends in a star
globEndsWithStar(cfg) ==
    cfg.PreferredEmailDomain # <<>> /\ HasSuffix(cfg.PreferredEmailDomain, "*")

\* Config.Open: the connector and the error it returns
Open(cfg) ==
    LET g0 == [redirectURI |-> cfg.RedirectURI, org |-> cfg.Org, orgs |-> cfg.Orgs,
               clientID |-> cfg.ClientID, clientSecret |-> cfg.ClientSecret,
               apiURL |-> apiURL, hostName |-> <<>>, rootCA |-> "",
               httpClient |-> NoHTTPClient, teamNameField |-> "",
               loadAllGroups |-> FALSE, useLoginAsID |-> cfg.UseLoginAsID,
               preferredEmailDomain |-> cfg.PreferredEmailDomain,
               noreplyPrivateEmail |-> cfg.NoreplyPrivateEmail]
        g1 == IF cfg.HostName # <<>>
              THEN [g0 EXCEPT !.hostName = cfg.HostName,
                              !.apiURL = "https://" \o Join(cfg.HostName) \o "/api/v3"]
              ELSE g0
        g2 == IF cfg.RootCA # ""
              THEN [g1 EXCEPT !.rootCA = cfg.RootCA,
                              !.httpClient = NewHTTPClient({cfg.RootCA})]
              ELSE g1
        g3 == [g2 EXCEPT !.loadAllGroups = cfg.LoadAllGroups,
                         !.teamNameField = cfg.TeamNameField]
        fail(msg) == [g |-> NoConnector, err |-> Errorf(msg)]
    IN  IF bothOrgAndOrgs(cfg)
        THEN fail("github: cannot use both 'org' and 'orgs' fields simultaneously")
        ELSE IF hostNameHasSlash(cfg)
        THEN fail("invalid hostname: hostname cannot contain /")
        ELSE IF cfg.RootCA # "" /\ cfg.HostName = <<>>
        THEN fail("invalid connector config: Host name field required for a root certificate file")
        ELSE IF cfg.RootCA = UnreadableFile
        THEN fail("failed to create HTTP client")
        ELSE IF cfg.TeamNameField \notin {"name", "slug", "both", ""}
        THEN fail("invalid connector config: unsupported team name field value")
        ELSE IF globEndsWithStar(cfg)
        THEN fail("invalid PreferredEmailDomain: glob pattern cannot end with *")
        ELSE [g |-> g3, err |-> nil]

\* the connectors Open builds from a set of configurations
Connectors(cfgs) == {Open(cfg).g : cfg \in {x \in cfgs : Open(x).err = nil}}

groupsRequiredScopeOnly(groupScope) == groupScope

groupsRequired(groupScope) == Len(c.orgs) > 0 \/ c.org # "" \/ groupScope

\* oauth2Config(scopes).Scopes
oauth2Scopes(scopes) ==
    <<scopeEmail>> \o (IF groupsRequired(scopes.Groups) THEN <<scopeOrgs>> ELSE <<>>)

\* github.Endpoint of golang.org/x/oauth2/github
githubEndpoint ==
    [AuthURL |-> "https://github.com/login/oauth/authorize",
     TokenURL |-> "https://github.com/login/oauth/access_token"]

NoOAuth2Config ==
    [ClientID |-> "", ClientSecret |-> "", Endpoint |-> [AuthURL |-> "", TokenURL |-> ""],
     Scopes |-> <<>>, RedirectURL |-> ""]

\* oauth2Config(scopes)
oauth2Config(scopes) ==
    [ClientID |-> c.clientID,
     ClientSecret |-> c.clientSecret,
     Endpoint |-> IF c.hostName # <<>>
                  THEN [AuthURL |-> "https://" \o Join(c.hostName) \o "/login/oauth/authorize",
                        TokenURL |-> "https://" \o Join(c.hostName) \o "/login/oauth/access_token"]
                  ELSE githubEndpoint,
     Scopes |-> oauth2Scopes(scopes),
     RedirectURL |-> c.redirectURI]

RECURSIVE JoinSpace(_)
\* strings.Join(scopes, " ")
JoinSpace(q) ==
    IF q = <<>> THEN ""
    ELSE IF Len(q) = 1 THEN q[1]
    ELSE q[1] \o " " \o JoinSpace(Tail(q))

NoURL ==
    [AuthURL |-> "", response_type |-> "", client_id |-> "", redirect_uri |-> "",
     scope |-> "", state |-> ""]

\* oauth2.Config.AuthCodeURL(state): the authorization endpoint and the
\* query parameters of the URL
AuthCodeURL(config, state) ==
    [AuthURL |-> config.Endpoint.AuthURL,
     response_type |-> "code",
     client_id |-> config.ClientID,
     redirect_uri |-> config.RedirectURL,
     scope |-> JoinSpace(config.Scopes),
     state |-> state]

LoginURLUnchecked(scopes, callbackURL, state) ==
    [val |-> AuthCodeURL(oauth2Config(scopes), state), err |-> nil]

\* LoginURL(scopes, callbackURL, state): the URL and the error
LoginURL(scopes, callbackURL, state) ==
    IF c.redirectURI # callbackURL
    THEN [val |-> NoURL,
          err |-> Errorf("expected callback URL " \o callbackURL
                         \o " did not match the URL in the config " \o c.redirectURI)]
    ELSE [val |-> AuthCodeURL(oauth2Config(scopes), state), err |-> nil]

-----------------------------------------------------------------------------
(* The documents the upstream API returns.                                 *)

\* type team, with its type org
Team(org, name, slug) == [Name |-> name, Org |-> [Login |-> org], Slug |-> slug]

TeamAX == Team("A", "X", "x")
TeamAY == Team("A", "Y", "y")
TeamBX == Team("B", "X", "x")
TeamBY == Team("B", "Y", "y")

\* the org logins the upstream knows
OrgLogins == {"A", "B"}

\* bodies of a page of GET /user/teams
TeamPages == {<<>>, <<TeamAX>>, <<TeamAY>>, <<TeamBY, TeamAX>>}

\* bodies of a page of GET /user/orgs
OrgPages == {<<>>, <<[Login |-> "A"]>>, <<[Login |-> "B"], [Login |-> "A"]>>}

\* type userEmail
Email(address, verified, primary) ==
    [Email |-> address, Verified |-> verified, Primary |-> primary]

NoEmail == Email(<<>>, FALSE, FALSE)

AtExample == <<"alice", "@", "example", ".", "com">>
AtMail == <<"alice", "@", "mail", ".", "example", ".", "com">>
AtOther == <<"alice", "@", "mail", ".", "example", ".", "org">>
NoAt == <<"alice">>

\* bodies of a page of GET /user/emails
EmailPages ==
    {<<>>,
     <<Email(AtExample, TRUE, TRUE)>>,
     <<Email(AtMail, TRUE, FALSE), Email(AtOther, TRUE, TRUE)>>,
     <<Email(AtMail, FALSE, TRUE)>>,
     <<Email(NoAt, TRUE, FALSE)>>}

\* type user
User(name, login, id, email) ==
    [Name |-> name, Login |-> login, ID |-> id, Email |-> email]

NoUser == User("", "", 0, <<>>)

\* bodies of GET /user
Users ==
    {User("Alice A", "alice", 7, AtExample),
     User("", "bob", 8, <<>>)}

\* connector.Identity
NoIdentity ==
    [UserID |-> "", Username |-> "", PreferredUsername |-> "", Email |-> <<>>,
     EmailVerified |-> FALSE, Groups |-> <<>>, ConnectorData |-> <<>>]

\* access tokens (RFC 6749 VSCHAR text), one with characters JSON escapes
Tokens == {<<"g", "h", "o">>, <<"\"", "\\", "t">>}

-----------------------------------------------------------------------------
(* encoding/json on connectorData.                                         *)

RECURSIVE EscapeJSON(_)
\* the body of a JSON string: quote and backslash are escaped
EscapeJSON(q) ==
    IF q = <<>> THEN <<>>
    ELSE (IF Head(q) \in {"\"", "\\"} THEN <<"\\", Head(q)>> ELSE <<Head(q)>>)
         \o EscapeJSON(Tail(q))

RECURSIVE ScanJSONString(_, _)
\* reads a JSON string body up to its closing quote: the text and the rest
ScanJSONString(q, acc) ==
    IF q = <<>> THEN [ok |-> FALSE, text |-> <<>>, rest |-> <<>>]
    ELSE IF Head(q) = "\"" THEN [ok |-> TRUE, text |-> acc, rest |-> Tail(q)]
    ELSE IF Head(q) = "\\"
    THEN IF Len(q) < 2 THEN [ok |-> FALSE, text |-> <<>>, rest |-> <<>>]
         ELSE ScanJSONString(Tail(Tail(q)), Append(acc, q[2]))
    ELSE ScanJSONString(Tail(q), Append(acc, Head(q)))

connectorDataOpen == <<"{", "\"accessToken\"", ":", "\"">>

MarshalUnescaped(token) == connectorDataOpen \o token \o <<"\"", "}">>

\* json.Marshal(connectorData{AccessToken: token})
Marshal(token) == connectorDataOpen \o EscapeJSON(token) \o <<"\"", "}">>

\* json.Unmarshal(data, &connectorData{}): the token and whether it decoded
Unmarshal(data) ==
    LET n == Len(connectorDataOpen)
        s == IF Len(data) > n THEN ScanJSONString(SubSeq(data, n + 1, Len(data)), <<>>)
             ELSE [ok |-> FALSE, text |-> <<>>, rest |-> <<>>]
    IN  IF data = <<"{", "}">> THEN [AccessToken |-> <<>>, ok |-> TRUE]
        ELSE IF Len(data) > n /\ SubSeq(data, 1, n) = connectorDataOpen
                /\ s.ok /\ s.rest = <<"}">>
        THEN [AccessToken |-> s.text, ok |-> TRUE]
        ELSE [AccessToken |-> <<>>, ok |-> FALSE]

-----------------------------------------------------------------------------
(* Pure helpers of the group and e-mail resolution.                        *)

formatTeamName(org, team) == org \o ":" \o team

teamGroupClaimsNameOnly(t) == <<t.Name>>

\* teamGroupClaims
teamGroupClaims(t) ==
    CASE c.teamNameField = "both" -> <<t.Name, t.Slug>>
      [] c.teamNameField = "slug" -> <<t.Slug>>
      [] OTHER -> <<t.Name>>

\* groups_pkg.Filter(given, required): the given groups that are required
Filter(given, required) == SelectSeqBy(given, Range(required))

\* the switch of userInOrg on resp.StatusCode: membership and error
userInOrgFoundIsMember(status) ==
    [inOrg |-> status \in {StatusNoContent, StatusFound},
     err   |-> IF status \in {StatusNoContent, StatusFound, StatusNotFound} THEN nil
               ELSE Errorf("github: unexpected return status: " \o ToString(status))]

userInOrgStatus(status) ==
    [inOrg |-> status = StatusNoContent,
     err   |-> IF status \in {StatusNoContent, StatusFound, StatusNotFound} THEN nil
               ELSE Errorf("github: unexpected return status: " \o ToString(status))]

isPreferredEmailDomainExact(domain) == domain = c.preferredEmailDomain

isPreferredEmailDomain(domain) ==
    LET preferredDomainParts == Split(c.preferredEmailDomain, ".")
        domainParts == Split(domain, ".")
    IN  \/ domain = c.preferredEmailDomain
        \/ /\ Len(preferredDomainParts) = Len(domainParts)
           /\ \A i \in 1..Len(preferredDomainParts) :
                ~(domainParts[i] # preferredDomainParts[i]
                  /\ preferredDomainParts[i] # <<"*">>)

-----------------------------------------------------------------------------
(* The state of one invocation.                                            *)

Scopes(groups, offlineAccess) == [Groups |-> groups, OfflineAccess |-> offlineAccess]

\* the query of the callback request
Request(errType, description, code) ==
    [error |-> errType, error_description |-> description, code |-> code]

NoCall ==
    [op |-> "", s |-> Scopes(FALSE, FALSE), r |-> Request("", "", ""),
     identity |-> NoIdentity, orgName |-> "", userName |-> "",
     callbackURL |-> "", state |-> "", cfg |-> Config0]

\* an *http.Client: the bearer token it adds and the roots it trusts
\* (no roots of its own: the default transport and trust store)
Client(token, base) == [token |-> token, rootCAs |-> base.rootCAs]

NoLocals ==
    [oauth2Config |-> NoOAuth2Config,
     client |-> Client(<<>>, NoHTTPClient), identity |-> NoIdentity, user |-> NoUser,
     apiURL |-> "", gets |-> 0, groups |-> <<>>, orgName |-> "", userName |-> "",
     i |-> 0, orgGroups |-> <<>>, inOrgNoTeams |-> FALSE, orgs |-> <<>>,
     orgTeams |-> [o \in OrgLogins |-> <<>>],
     primaryEmail |-> NoEmail, preferredEmails |-> <<>>]

NoRet == [val |-> <<>>, err |-> nil]

NoResp == [url |-> "", links |-> <<>>, next |-> ""]

\* an invocation that has not started
NoOther ==
    [call |-> NoCall, pc |-> "idle", loc |-> NoLocals, ret |-> NoRet, log |-> <<>>,
     resp |-> NoResp, wf |-> {}]

\* a control state: where the invocation stands after a step
At(p, l) == [pc |-> p, loc |-> l, ret |-> NoRet]

\* the entry point returns: its locals are gone
Done(val, e) == [pc |-> "done", loc |-> NoLocals, ret |-> [val |-> val, err |-> e]]

CrawlOps == {"teamsForOrg", "userOrgs", "userOrgTeams", "userEmail"}

\* the locals of a crawl loop go when the crawl returns
ClearCrawl(l) ==
    [l EXCEPT !.apiURL = "", !.gets = 0, !.groups = <<>>, !.orgName = "",
              !.orgTeams = [o \in OrgLogins |-> <<>>],
              !.primaryEmail = NoEmail, !.preferredEmails = <<>>]

-----------------------------------------------------------------------------
(* get: one GET and its answer.                                            *)

\* An answer: the transport fails, or a status line with a body that
\* decodes or not into the caller's shape, and a Link header.
Response(transport, status, decodes, body, links) ==
    [transport |-> transport, status |-> status, decodes |-> decodes,
     body |-> body, links |-> links]

Failures ==
    {Response("error", 0, FALSE, <<>>, <<>>),
     Response("ok", StatusInternalServerError, FALSE, <<>>, <<>>),
     Response("ok", StatusOK, FALSE, <<>>, <<>>)}

\* the failures, and every body with every Link header
Responses(bodies, headers) ==
    Failures \cup {Response("ok", StatusOK, TRUE, b, h) : b \in bodies, h \in headers}

\* the answers to a membership check: no answer (0), or a status
MemberAnswers ==
    {0, StatusOK, StatusNoContent, StatusFound, StatusNotFound, StatusInternalServerError}

\* the answers to GET /user
UserAnswers == Responses(Users, {<<>>})

\* get(ctx, client, apiURL, v): the next page's URL and the error
get(url, r) ==
    IF r.transport # "ok" THEN [next |-> "", err |-> Errorf("github: get URL")]
    ELSE IF r.status # StatusOK
    THEN [next |-> "", err |-> Errorf(ToString(r.status) \o ": body")]
    ELSE IF ~r.decodes THEN [next |-> "", err |-> Errorf("failed to decode response")]
    ELSE [next |-> getPagination(url, r.links), err |-> nil]

\* the record of one outbound call
Outbound(kind, url, client, got) ==
    [kind |-> kind, url |-> url, token |-> client.token, rootCAs |-> client.rootCAs,
     got |-> got]

\* Page k of a collection of n pages with correct headers: every page but
\* the last names the following page as next and page n as last; the last
\* page names no next page.
CorrectLinks(base, n, k, links) ==
    IF k < n
    THEN reNext(links) = PageURL(base, k + 1) /\ reLast(links) = PageURL(base, n)
    ELSE reNext(links) = "" /\ reLast(links) \in {"", PageURL(base, n)}

\* the page counts still possible after get(url) was answered by r
Served(h, base, url, r) ==
    IF get(url, r).err # nil THEN {}
    ELSE {n \in h : \E k \in 1..n :
              url = PageURL(base, k) /\ CorrectLinks(base, n, k, r.links)}

\* what the log keeps of an answer of get: all but its Link header
Got(r) == [r EXCEPT !.links = <<>>]

-----------------------------------------------------------------------------
(* Where each function returns to.  A function that is the entry point of  *)
(* the invocation returns to the caller of the connector (Done); called    *)
(* from another function it continues that function's code.                *)

\* HandleCallback, lines 751-760
HandleCallbackOffline(l) ==
    IF call.s.OfflineAccess
    THEN Done([l.identity EXCEPT !.ConnectorData = Marshal(l.client.token)], nil)
    ELSE Done(l.identity, nil)

\* HandleCallback lines 744-749 and Refresh lines 789-796: after getGroups
getGroupsReturn(l, groups, e) ==
    CASE call.op = "HandleCallback" ->
            IF e # nil THEN Done(l.identity, e)
            ELSE HandleCallbackOffline([l EXCEPT !.identity.Groups = groups])
      [] call.op = "Refresh" ->
            IF e # nil THEN Done(l.identity, e)
            ELSE Done([l.identity EXCEPT !.Groups = groups], nil)
      [] OTHER -> Done(groups, e)

\* getGroups returns what groupsForOrgs returns
groupsForOrgsReturn(l, groups, e) ==
    IF call.op = "groupsForOrgs" THEN Done(groups, e) ELSE getGroupsReturn(l, groups, e)

notInRequiredOrgs(userName) ==
    Errorf("github: user \"" \o userName \o "\" not in required orgs or teams")

\* groupsForOrgs, the head of the loop over c.orgs and lines 855-858
groupsForOrgsLoop(l) ==
    IF l.i <= Len(c.orgs) THEN At("userInOrg", l)
    ELSE IF l.inOrgNoTeams \/ Len(l.orgGroups) > 0
    THEN groupsForOrgsReturn(l, l.orgGroups, nil)
    ELSE groupsForOrgsReturn(l, l.orgGroups, notInRequiredOrgs(l.userName))

groupsForOrgs(l, userName) ==
    groupsForOrgsLoop([l EXCEPT !.userName = userName, !.i = 1,
                                !.orgGroups = <<>>, !.inOrgNoTeams = FALSE])

\* formatTeamName(org, teamName) for each team name
formatTeamNames(org, teams) == [j \in 1..Len(teams) |-> formatTeamName(org, teams[j])]

\* groupsForOrgs lines 839-853: after teamsForOrg, variants used by the checks
groupsForOrgsTeamsDropsUnrestricted(l, teams) ==
    LET org == c.orgs[l.i]
        kept == IF Len(org.Teams) = 0 THEN <<>> ELSE Filter(teams, org.Teams)
    IN  groupsForOrgsLoop(
            [l EXCEPT !.i = @ + 1,
                      !.inOrgNoTeams = @ \/ Len(org.Teams) = 0,
                      !.orgGroups = @ \o formatTeamNames(org.Name, kept)])

groupsForOrgsTeamsAlwaysAuthorized(l, teams) ==
    LET org == c.orgs[l.i]
        kept == IF Len(org.Teams) = 0 THEN teams ELSE Filter(teams, org.Teams)
    IN  groupsForOrgsLoop(
            [l EXCEPT !.i = @ + 1,
                      !.inOrgNoTeams = TRUE,
                      !.orgGroups = @ \o formatTeamNames(org.Name, kept)])

groupsForOrgsTeams(l, teams) ==
    LET org == c.orgs[l.i]
        kept == IF Len(org.Teams) = 0 THEN teams ELSE Filter(teams, org.Teams)
    IN  groupsForOrgsLoop(
            [l EXCEPT !.i = @ + 1,
                      !.inOrgNoTeams = @ \/ Len(org.Teams) = 0,
                      !.orgGroups = @ \o formatTeamNames(org.Name, kept)])

\* teamsForOrg returns to groupsForOrgs (line 838) or to getGroups (line 805)
teamsForOrgReturn(l, teams, e) ==
    IF call.op = "teamsForOrg" THEN Done(teams, e)
    ELSE IF call.op = "groupsForOrgs" \/ Len(c.orgs) > 0
    THEN IF e # nil THEN groupsForOrgsReturn(l, <<>>, e)
         ELSE groupsForOrgsTeams(l, teams)
    ELSE getGroupsReturn(l, teams, e)

\* the first GET of teamsForOrg(orgName)
teamsForOrg(l, orgName) ==
    At("teamsForOrg", [ClearCrawl(l) EXCEPT !.apiURL = c.apiURL \o "/user/teams",
                                            !.orgName = orgName])

userInOrgReturnFetchesAnyway(l, inOrg, e) ==
    IF e # nil THEN groupsForOrgsReturn(l, <<>>, e)
    ELSE teamsForOrg(l, c.orgs[l.i].Name)

\* userInOrg returns to groupsForOrgs, lines 830-836
userInOrgReturn(l, inOrg, e) ==
    IF e # nil THEN groupsForOrgsReturn(l, <<>>, e)
    ELSE IF ~inOrg THEN groupsForOrgsLoop([l EXCEPT !.i = @ + 1])
    ELSE teamsForOrg(l, c.orgs[l.i].Name)

\* getGroups returns what userGroups returns
userGroupsReturn(l, groups, e) ==
    IF call.op = "userGroups" THEN Done(groups, e) ELSE getGroupsReturn(l, groups, e)

RECURSIVE userGroupsJoinSkipsEmptyOrgs(_, _)
userGroupsJoinSkipsEmptyOrgs(orgs, orgTeams) ==
    IF orgs = <<>> THEN <<>>
    ELSE (IF Head(orgs) \in DOMAIN orgTeams /\ orgTeams[Head(orgs)] # <<>>
          THEN <<Head(orgs)>> \o formatTeamNames(Head(orgs), orgTeams[Head(orgs)])
          ELSE <<>>)
         \o userGroupsJoinSkipsEmptyOrgs(Tail(orgs), orgTeams)

RECURSIVE userGroupsJoin(_, _)
\* userGroups lines 872-880: each org, then its teams
userGroupsJoin(orgs, orgTeams) ==
    IF orgs = <<>> THEN <<>>
    ELSE <<Head(orgs)>>
         \o (IF Head(orgs) \in DOMAIN orgTeams
             THEN formatTeamNames(Head(orgs), orgTeams[Head(orgs)]) ELSE <<>>)
         \o userGroupsJoin(Tail(orgs), orgTeams)

\* userOrgTeams returns to userGroups, lines 867-882
userOrgTeamsReturn(l, orgTeams, e) ==
    IF call.op = "userOrgTeams" THEN Done(orgTeams, e)
    ELSE IF e # nil THEN userGroupsReturn(l, <<>>, e)
    ELSE userGroupsReturn(l, userGroupsJoin(l.orgs, orgTeams), nil)

\* the first GET of userOrgTeams
userOrgTeams(l) ==
    At("userOrgTeams", [ClearCrawl(l) EXCEPT !.apiURL = c.apiURL \o "/user/teams"])

\* userOrgs returns to userGroups, lines 862-867
userOrgsReturn(l, orgs, e) ==
    IF call.op = "userOrgs" THEN Done(orgs, e)
    ELSE IF e # nil THEN userGroupsReturn(l, <<>>, e)
    ELSE userOrgTeams([l EXCEPT !.orgs = orgs])

\* the first GET of userOrgs, which userGroups calls first
userOrgs(l) ==
    At("userOrgs", [ClearCrawl(l) EXCEPT !.apiURL = c.apiURL \o "/user/orgs"])

\* getGroups
getGroupsLoadsAllOnScope(l, groupScope, userLogin) ==
    CASE Len(c.orgs) > 0 -> groupsForOrgs(l, userLogin)
      [] Len(c.orgs) = 0 /\ c.org # "" -> teamsForOrg(l, c.org)
      [] Len(c.orgs) = 0 /\ c.org = "" /\ groupScope -> userOrgs(l)
      [] OTHER -> getGroupsReturn(l, <<>>, nil)

getGroupsLoadAllFirst(l, groupScope, userLogin) ==
    CASE groupScope /\ c.loadAllGroups -> userOrgs(l)
      [] ~(groupScope /\ c.loadAllGroups) /\ Len(c.orgs) > 0 -> groupsForOrgs(l, userLogin)
      [] ~(groupScope /\ c.loadAllGroups) /\ Len(c.orgs) = 0 /\ c.org # "" ->
            teamsForOrg(l, c.org)
      [] OTHER -> getGroupsReturn(l, <<>>, nil)

getGroups(l, groupScope, userLogin) ==
    CASE Len(c.orgs) > 0 -> groupsForOrgs(l, userLogin)
      [] Len(c.orgs) = 0 /\ c.org # "" -> teamsForOrg(l, c.org)
      [] Len(c.orgs) = 0 /\ c.org = "" /\ groupScope /\ c.loadAllGroups -> userOrgs(l)
      [] OTHER -> getGroupsReturn(l, <<>>, nil)

-----------------------------------------------------------------------------
(* user, userEmail, and the code of HandleCallback and Refresh after them. *)

RefreshIdentityReissued(identity, u) ==
    [identity EXCEPT !.UserID = ToString(u.ID), !.PreferredUsername = u.Login,
                     !.Username = IF u.Name = "" THEN u.Login ELSE u.Name,
                     !.Email = u.Email]

\* Refresh lines 780-786: the fields of the prior identity it overwrites
RefreshIdentity(identity, u) ==
    [identity EXCEPT !.Username = IF u.Name = "" THEN u.Login ELSE u.Name,
                     !.PreferredUsername = u.Login,
                     !.Email = u.Email]

HandleCallbackIdentityNumericID(u) ==
    [UserID |-> ToString(u.ID),
     Username |-> IF u.Name = "" THEN u.Login ELSE u.Name,
     PreferredUsername |-> u.Login,
     Email |-> u.Email,
     EmailVerified |-> TRUE,
     Groups |-> <<>>,
     ConnectorData |-> <<>>]

\* HandleCallback lines 726-741: the identity of the profile u
HandleCallbackIdentity(u) ==
    [UserID |-> IF c.useLoginAsID THEN u.Login ELSE ToString(u.ID),
     Username |-> IF u.Name = "" THEN u.Login ELSE u.Name,
     PreferredUsername |-> u.Login,
     Email |-> u.Email,
     EmailVerified |-> TRUE,
     Groups |-> <<>>,
     ConnectorData |-> <<>>]

\* HandleCallback lines 722-749 and Refresh lines 775-794: after c.user
userReturn(l, u, e) ==
    CASE call.op = "HandleCallback" ->
            IF e # nil THEN Done(l.identity, Wrap("github: get user: ", e))
            ELSE LET identity == HandleCallbackIdentity(u)
                     l1 == [l EXCEPT !.identity = identity, !.user = NoUser]
                 IN  IF groupsRequired(call.s.Groups)
                     THEN getGroups(l1, call.s.Groups, u.Login)
                     ELSE HandleCallbackOffline(l1)
      [] call.op = "Refresh" ->
            IF e # nil THEN Done(l.identity, Wrap("github: get user: ", e))
            ELSE LET identity == RefreshIdentity(l.identity, u)
                     l1 == [l EXCEPT !.identity = identity, !.user = NoUser]
                 IN  IF groupsRequired(call.s.Groups)
                     THEN getGroups(l1, call.s.Groups, u.Login)
                     ELSE Done(identity, nil)
      [] OTHER -> Done(u, e)

\* user lines 1032-1036: after userEmail
userEmailReturn(l, email, e) ==
    IF call.op = "userEmail" THEN Done(email, e)
    ELSE userReturn(l, [l.user EXCEPT !.Email = email], e)

\* the first GET of userEmail
userEmail(l) ==
    At("userEmail", [ClearCrawl(l) EXCEPT !.apiURL = c.apiURL \o "/user/emails"])

noreplyEmail(u) ==
    <<ToString(u.ID) \o "+" \o u.Login, "@", "users", ".", "noreply", ".", "github", ".", "com">>

userDecodedPreferredFirst(l, u) ==
    IF c.preferredEmailDomain # <<>> THEN userEmail([l EXCEPT !.user = u])
    ELSE IF c.noreplyPrivateEmail /\ (c.hostName = <<>> \/ Join(c.hostName) = "github.com")
    THEN userReturn(l, [u EXCEPT !.Email = noreplyEmail(u)], nil)
    ELSE IF u.Email = <<>> THEN userEmail([l EXCEPT !.user = u])
    ELSE userReturn(l, u, nil)

userDecodedNoreplyAnyHost(l, u) ==
    IF c.noreplyPrivateEmail
    THEN userReturn(l, [u EXCEPT !.Email = noreplyEmail(u)], nil)
    ELSE IF u.Email = <<>> \/ c.preferredEmailDomain # <<>>
    THEN userEmail([l EXCEPT !.user = u])
    ELSE userReturn(l, u, nil)

userDecodedCrawlsWhenEmpty(l, u) ==
    IF c.noreplyPrivateEmail /\ (c.hostName = <<>> \/ Join(c.hostName) = "github.com")
    THEN userReturn(l, [u EXCEPT !.Email = noreplyEmail(u)], nil)
    ELSE IF u.Email = <<>> THEN userEmail([l EXCEPT !.user = u])
    ELSE userReturn(l, u, nil)

\* user lines 1018-1037: after GET /user decoded u
userDecoded(l, u) ==
    IF c.noreplyPrivateEmail /\ (c.hostName = <<>> \/ Join(c.hostName) = "github.com")
    THEN userReturn(l, [u EXCEPT !.Email = noreplyEmail(u)], nil)
    ELSE IF u.Email = <<>> \/ c.preferredEmailDomain # <<>>
    THEN userEmail([l EXCEPT !.user = u])
    ELSE userReturn(l, u, nil)

verifiedAsServed(email) == email

\* userEmail lines 1083-1085: with a host name every e-mail is verified
verifiedOnHost(email) ==
    IF c.hostName # <<>> THEN [email EXCEPT !.Verified = TRUE] ELSE email

primaryKeptOnceSet(primaryEmail, email) ==
    IF email.Verified /\ email.Primary /\ primaryEmail.Email = <<>> THEN email
    ELSE primaryEmail

\* userEmail lines 1087-1089: the verified primary e-mail held so far
primaryTracked(primaryEmail, email) ==
    IF email.Verified /\ email.Primary THEN email ELSE primaryEmail

RECURSIVE userEmailLoop(_, _)
\* userEmail lines 1072-1100: the loop over one page's e-mails
userEmailLoop(emails, st) ==
    IF emails = <<>> THEN st
    ELSE LET email == verifiedOnHost(Head(emails))
             primary == primaryTracked(st.primaryEmail, email)
             cut == Cut(email.Email, "@")
         IN  IF c.preferredEmailDomain = <<>>
             THEN userEmailLoop(Tail(emails), [st EXCEPT !.primaryEmail = primary])
             ELSE IF ~cut.found
             THEN [st EXCEPT !.primaryEmail = primary,
                             !.err = Errorf("github: invalid format email is detected")]
             ELSE userEmailLoop(Tail(emails),
                      [st EXCEPT !.primaryEmail = primary,
                                 !.preferredEmails =
                                     IF email.Verified /\ isPreferredEmailDomain(cut.after)
                                     THEN Append(@, email) ELSE @])

userEmailChoicePrimaryFirst(l) ==
    IF l.primaryEmail.Email # <<>>
    THEN userEmailReturn(ClearCrawl(l), l.primaryEmail.Email, nil)
    ELSE IF Len(l.preferredEmails) > 0
    THEN userEmailReturn(ClearCrawl(l), l.preferredEmails[1].Email, nil)
    ELSE userEmailReturn(ClearCrawl(l), <<>>,
             Errorf("github: user has no verified, primary email or preferred-domain email"))

\* userEmail lines 1107-1115: the choice after the last page
userEmailChoice(l) ==
    IF Len(l.preferredEmails) > 0
    THEN userEmailReturn(ClearCrawl(l), l.preferredEmails[1].Email, nil)
    ELSE IF l.primaryEmail.Email # <<>>
    THEN userEmailReturn(ClearCrawl(l), l.primaryEmail.Email, nil)
    ELSE userEmailReturn(ClearCrawl(l), <<>>,
             Errorf("github: user has no verified, primary email or preferred-domain email"))

RECURSIVE teamsForOrgPageAnyOrg(_, _)
teamsForOrgPageAnyOrg(teams, orgName) ==
    IF teams = <<>> THEN <<>>
    ELSE teamGroupClaims(Head(teams)) \o teamsForOrgPageAnyOrg(Tail(teams), orgName)

\* the team names teamsForOrg appends for one page
RECURSIVE teamsForOrgPage(_, _)
teamsForOrgPage(teams, orgName) ==
    IF teams = <<>> THEN <<>>
    ELSE (IF Head(teams).Org.Login = orgName THEN teamGroupClaims(Head(teams)) ELSE <<>>)
         \o teamsForOrgPage(Tail(teams), orgName)

\* the map userOrgTeams holds after one page
RECURSIVE userOrgTeamsPage(_, _)
userOrgTeamsPage(teams, groups) ==
    IF teams = <<>> THEN groups
    ELSE userOrgTeamsPage(Tail(teams),
             [groups EXCEPT ![Head(teams).Org.Login] = @ \o teamGroupClaims(Head(teams))])

\* the logins userOrgs appends for one page
userOrgsPage(orgs) == [j \in 1..Len(orgs) |-> orgs[j].Login]

-----------------------------------------------------------------------------
(* The steps.                                                              *)

MoveResetsAPIURL(k, entries, h, rs) ==
    /\ pc' = k.pc
    /\ loc' = k.loc
    /\ ret' = k.ret
    /\ log' = log \o entries
    /\ wf' = {}
    /\ resp' = NoResp
    /\ c' = [c EXCEPT !.apiURL = apiURL]
    /\ UNCHANGED <<call, session, other>>

\* The invocation moves to control state k having issued the outbound
\* calls entries; h and rs are the crawl's wf and its last response if
\* the step was a GET of a crawl that goes on or that ends the invocation.
Move(k, entries, h, rs) ==
    LET starts == k.pc \in CrawlOps /\ k.loc.gets = 0
        stays == \/ k.pc = pc /\ k.loc.gets > 0
                 \/ k.pc = "done" /\ call.op \in CrawlOps
    IN  /\ pc' = k.pc
        /\ loc' = k.loc
        /\ ret' = k.ret
        /\ log' = log \o entries
        /\ wf' = IF starts THEN 1..MaxPage ELSE IF stays THEN h ELSE {}
        /\ resp' = IF stays THEN rs ELSE NoResp
        /\ UNCHANGED <<c, call, session, other>>

\* the token endpoint of oauth2Config
TokenURL ==
    IF c.hostName # <<>> THEN "https://" \o Join(c.hostName) \o "/login/oauth/access_token"
    ELSE "https://github.com/login/oauth/access_token"

HandleCallbackQueryCodeFirst(r) ==
    IF r.code # "" THEN At("Exchange", NoLocals)
    ELSE Done(NoIdentity, oauth2Error(r.error, r.error_description))

\* HandleCallback lines 701-704: the error parameter of the query
HandleCallbackQuery(r) ==
    IF r.error # ""
    THEN Done(NoIdentity, oauth2Error(r.error, r.error_description))
    ELSE At("Exchange", NoLocals)

\* HandleCallback lines 700-706: the control state up to the code exchange
HandleCallbackEntry(s, r) ==
    LET k == HandleCallbackQuery(r)
    IN  IF k.pc = "done" THEN k
        ELSE At(k.pc, [k.loc EXCEPT !.oauth2Config = oauth2Config(s)])

\* HandleCallback lines 700-704: the entry, up to the code exchange
HandleCallback(s, r) ==
    /\ pc = "idle"
    /\ call' = [NoCall EXCEPT !.op = "HandleCallback", !.s = s, !.r = r]
    /\ LET k == HandleCallbackEntry(s, r)
       IN  /\ pc' = k.pc
           /\ loc' = k.loc
           /\ ret' = k.ret
    /\ log' = <<>>
    /\ wf' = {}
    /\ resp' = NoResp
    /\ UNCHANGED <<c, session, other>>

\* the client is kept on the connector and reused by whoever comes next
ExchangeAnswerClientOnConnector(l, answer) ==
    IF answer = <<>>
    THEN Done(NoIdentity, Errorf("github: failed to get token: oauth2"))
    ELSE At("user", [l EXCEPT !.client = IF other.loc.client.token # <<>>
                                         THEN other.loc.client
                                         ELSE Client(answer, c.httpClient)])

\* HandleCallback lines 712-719: after oauth2Config.Exchange answered
ExchangeAnswer(l, answer) ==
    IF answer = <<>>
    THEN Done(NoIdentity, Errorf("github: failed to get token: oauth2"))
    ELSE At("user", [l EXCEPT !.client = Client(answer, c.httpClient)])

\* HandleCallback lines 706-719: oauth2Config.Exchange and the client
Exchange ==
    /\ pc = "Exchange"
    /\ \E answer \in {<<>>} \cup Tokens :
        LET base == Client(<<>>, c.httpClient)
        IN  Move(ExchangeAnswer(loc, answer),
                 <<Outbound("Exchange", TokenURL, base, answer)>>, wf, resp)

\* user lines 1011-1037: after GET /user answered r
userAnswer(l, r) ==
    LET g == get(c.apiURL \o "/user", r)
    IN  IF g.err # nil THEN userReturn(l, NoUser, g.err) ELSE userDecoded(l, r.body)

\* user lines 1011-1016: GET /user
GetUser(answers) ==
    /\ pc = "user"
    /\ \E r \in answers :
        Move(userAnswer(loc, r),
             <<Outbound("get", c.apiURL \o "/user", loc.client, Got(r))>>, wf, resp)

userEmailAnswerSkipsMalformed(l, r) ==
    LET g == get(l.apiURL, r)
        st == userEmailLoop(SelectSeq(r.body, LAMBDA email : Cut(email.Email, "@").found),
                            [primaryEmail |-> l.primaryEmail,
                             preferredEmails |-> l.preferredEmails,
                             err |-> nil])
        l1 == [l EXCEPT !.apiURL = g.next, !.gets = @ + 1,
                        !.primaryEmail = st.primaryEmail,
                        !.preferredEmails = st.preferredEmails]
    IN  IF g.err # nil THEN userEmailReturn(ClearCrawl(l), <<>>, g.err)
        ELSE IF g.next = "" THEN userEmailChoice(l1)
        ELSE At("userEmail", l1)

\* userEmail lines 1062-1115: after the GET of one turn answered r
userEmailAnswer(l, r) ==
    LET g == get(l.apiURL, r)
        st == userEmailLoop(r.body, [primaryEmail |-> l.primaryEmail,
                                     preferredEmails |-> l.preferredEmails,
                                     err |-> nil])
        l1 == [l EXCEPT !.apiURL = g.next, !.gets = @ + 1,
                        !.primaryEmail = st.primaryEmail,
                        !.preferredEmails = st.preferredEmails]
    IN  IF g.err # nil THEN userEmailReturn(ClearCrawl(l), <<>>, g.err)
        ELSE IF st.err # nil THEN userEmailReturn(ClearCrawl(l), <<>>, st.err)
        ELSE IF g.next = "" THEN userEmailChoice(l1)
        ELSE At("userEmail", l1)

\* userEmail lines 1062-1105: one turn of the loop
GetUserEmail(answers) ==
    /\ pc = "userEmail"
    /\ loc.gets < MaxGets
    /\ \E r \in answers :
        LET g == get(loc.apiURL, r)
        IN  Move(userEmailAnswer(loc, r),
                 <<Outbound("get", loc.apiURL, loc.client, Got(r))>>,
                 Served(wf, c.apiURL \o "/user/emails", loc.apiURL, r),
                 [url |-> loc.apiURL, links |-> r.links, next |-> g.next])

\* userInOrg lines 1151-1170: after the membership check answered
userInOrgAnswer(l, answer) ==
    LET m == userInOrgStatus(answer)
    IN  IF answer = 0
        THEN userInOrgReturn(l, FALSE, Errorf("github: get teams: transport"))
        ELSE userInOrgReturn(l, m.inOrg, m.err)

\* userInOrg: the membership check of c.orgs[loc.i]
UserInOrg(answers) ==
    /\ pc = "userInOrg"
    /\ \E answer \in answers :
        LET url == c.apiURL \o "/orgs/" \o c.orgs[loc.i].Name \o "/members/" \o loc.userName
        IN  Move(userInOrgAnswer(loc, answer),
                 <<Outbound("userInOrg", url, loc.client, answer)>>, wf, resp)

\* teamsForOrg lines 1191-1212: after the GET of one turn answered r
teamsForOrgAnswer(l, r) ==
    LET g == get(l.apiURL, r)
        l1 == [l EXCEPT !.apiURL = g.next, !.gets = @ + 1,
                        !.groups = @ \o teamsForOrgPage(r.body, l.orgName)]
    IN  IF g.err # nil
        THEN teamsForOrgReturn(ClearCrawl(l), <<>>, Wrap("github: get teams: ", g.err))
        ELSE IF g.next = "" THEN teamsForOrgReturn(ClearCrawl(l1), l1.groups, nil)
        ELSE At("teamsForOrg", l1)

\* teamsForOrg lines 1191-1210: one turn of the loop
GetTeamsForOrg(answers) ==
    /\ pc = "teamsForOrg"
    /\ loc.gets < MaxGets
    /\ \E r \in answers :
        LET g == get(loc.apiURL, r)
        IN  Move(teamsForOrgAnswer(loc, r),
                 <<Outbound("get", loc.apiURL, loc.client, Got(r))>>,
                 Served(wf, c.apiURL \o "/user/teams", loc.apiURL, r),
                 [url |-> loc.apiURL, links |-> r.links, next |-> g.next])

\* userOrgs lines 889-908: after the GET of one turn answered r
userOrgsAnswer(l, r) ==
    LET g == get(l.apiURL, r)
        l1 == [l EXCEPT !.apiURL = g.next, !.gets = @ + 1,
                        !.groups = @ \o userOrgsPage(r.body)]
    IN  IF g.err # nil
        THEN userOrgsReturn(ClearCrawl(l), <<>>, Wrap("github: get orgs: ", g.err))
        ELSE IF g.next = "" THEN userOrgsReturn(ClearCrawl(l1), l1.groups, nil)
        ELSE At("userOrgs", l1)

\* userOrgs lines 889-906: one turn of the loop
GetUserOrgs(answers) ==
    /\ pc = "userOrgs"
    /\ loc.gets < MaxGets
    /\ \E r \in answers :
        LET g == get(loc.apiURL, r)
        IN  Move(userOrgsAnswer(loc, r),
                 <<Outbound("get", loc.apiURL, loc.client, Got(r))>>,
                 Served(wf, c.apiURL \o "/user/orgs", loc.apiURL, r),
                 [url |-> loc.apiURL, links |-> r.links, next |-> g.next])

\* userOrgTeams lines 916-935: after the GET of one turn answered r
userOrgTeamsAnswer(l, r) ==
    LET g == get(l.apiURL, r)
        l1 == [l EXCEPT !.apiURL = g.next, !.gets = @ + 1,
                        !.orgTeams = userOrgTeamsPage(r.body, @)]
    IN  IF g.err # nil
        THEN userOrgTeamsReturn(ClearCrawl(l), [o \in OrgLogins |-> <<>>],
                                Wrap("github: get teams: ", g.err))
        ELSE IF g.next = "" THEN userOrgTeamsReturn(ClearCrawl(l1), l1.orgTeams, nil)
        ELSE At("userOrgTeams", l1)

\* userOrgTeams lines 916-933: one turn of the loop
GetUserOrgTeams(answers) ==
    /\ pc = "userOrgTeams"
    /\ loc.gets < MaxGets
    /\ \E r \in answers :
        LET g == get(loc.apiURL, r)
        IN  Move(userOrgTeamsAnswer(loc, r),
                 <<Outbound("get", loc.apiURL, loc.client, Got(r))>>,
                 Served(wf, c.apiURL \o "/user/teams", loc.apiURL, r),
                 [url |-> loc.apiURL, links |-> r.links, next |-> g.next])

RefreshConnectorDataDropsIdentity(identity) ==
    LET data == Unmarshal(identity.ConnectorData)
    IN  IF Len(identity.ConnectorData) = 0 \/ ~data.ok
        THEN Done(NoIdentity, Errorf("no upstream access token found"))
        ELSE At("user", [NoLocals EXCEPT
                            !.client = Client(data.AccessToken, NoHTTPClient),
                            !.identity = identity])

\* Refresh lines 764-773: the connector data of the prior identity
RefreshConnectorData(identity) ==
    LET data == Unmarshal(identity.ConnectorData)
    IN  IF Len(identity.ConnectorData) = 0
        THEN Done(identity, Errorf("no upstream access token found"))
        ELSE IF ~data.ok
        THEN Done(identity, Errorf("github: unmarshal access token: invalid"))
        ELSE At("user", [NoLocals EXCEPT
                            !.client = Client(data.AccessToken, NoHTTPClient),
                            !.identity = identity])

\* Refresh lines 763-775: the control state up to GET /user
RefreshEntry(s, identity) ==
    LET k == RefreshConnectorData(identity)
    IN  IF k.pc = "done" THEN k
        ELSE At(k.pc, [k.loc EXCEPT !.oauth2Config = oauth2Config(s)])

\* Refresh lines 763-773: the entry, up to GET /user
Refresh(s, identity) ==
    /\ pc = "idle"
    /\ call' = [NoCall EXCEPT !.op = "Refresh", !.s = s, !.identity = identity]
    /\ LET k == RefreshEntry(s, identity)
       IN  /\ pc' = k.pc
           /\ loc' = k.loc
           /\ ret' = k.ret
    /\ log' = <<>>
    /\ wf' = {}
    /\ resp' = NoResp
    /\ UNCHANGED <<c, session, other>>

\* LoginURL: the whole call
GetLoginURL(scopes, callbackURL, state) ==
    /\ pc = "idle"
    /\ call' = [NoCall EXCEPT !.op = "LoginURL", !.s = scopes,
                              !.callbackURL = callbackURL, !.state = state]
    /\ pc' = "done"
    /\ ret' = LoginURL(scopes, callbackURL, state)
    /\ log' = <<>>
    /\ UNCHANGED <<c, loc, resp, wf, session, other>>

\* the token a code exchange in the log obtained
Exchanged(calls) ==
    LET x == {j \in 1..Len(calls) : calls[j].kind = "Exchange"}
    IN  IF x = {} THEN <<>> ELSE calls[CHOOSE j \in x : TRUE].got

\* The connector's caller takes the result: the server keeps the identity
\* of a successful login, and of a successful refresh of the identity it
\* kept, and drops a failed one.
Return ==
    /\ pc = "done"
    /\ pc' = "idle"
    /\ session' = IF ret.err # nil THEN session
                  ELSE IF call.op = "HandleCallback"
                  THEN [identity |-> ret.val, token |-> Exchanged(log)]
                  ELSE IF call.op = "Refresh" /\ call.identity = session.identity
                  THEN [session EXCEPT !.identity = ret.val]
                  ELSE session
    /\ call' = NoCall
    /\ ret' = NoRet
    /\ log' = <<>>
    /\ UNCHANGED <<c, loc, resp, wf, other>>

-----------------------------------------------------------------------------
(* Specification Spec: logins and refreshes on one connector.              *)

\* the configurations of Spec
Configs ==
    {Config0,
     [Config0 EXCEPT !.Orgs = <<Org("A", <<"X">>)>>],
     [Config0 EXCEPT !.Org = "A", !.UseLoginAsID = TRUE],
     [Config0 EXCEPT !.LoadAllGroups = TRUE, !.HostName = <<"ghe", ".", "corp">>,
                     !.RootCA = "ca.pem"],
     [Config0 EXCEPT !.Org = "A", !.Orgs = <<Org("A", <<>>)>>]}

CallbackRequests ==
    {Request("", "", "code"), Request("access_denied", "user said no", ""),
     Request("access_denied", "", "code")}

ScopeSets == {Scopes(g, o) : g \in BOOLEAN, o \in BOOLEAN}

\* the callbackURL and state arguments of LoginURL
CallbackURLs == {Config0.RedirectURI, "https://dex.example/other"}

States == {"state1", "state2"}

\* the identities the server may hand to Refresh: the one it keeps, that
\* one with connector data that another connector version wrote, and that
\* one with the groups of a login under an earlier configuration
RefreshIdentities ==
    {session.identity,
     [session.identity EXCEPT !.ConnectorData = <<"{", "}">>],
     [session.identity EXCEPT !.ConnectorData = <<"{", "\"accessToken\"">>],
     [session.identity EXCEPT !.Groups = <<"A:X">>]}

Init ==
    /\ c \in Connectors(Configs)
    /\ call = NoCall
    /\ pc = "idle"
    /\ loc = NoLocals
    /\ ret = NoRet
    /\ log = <<>>
    /\ resp = NoResp
    /\ wf = {}
    /\ session = [identity |-> NoIdentity, token |-> <<>>]
    /\ other = NoOther

\* In Spec a collection has one page, or two with correct headers.
OneOrTwoPages(base) ==
    {<<>>,
     <<[url |-> PageURL(base, 2), rel |-> "next"],
       [url |-> PageURL(base, 2), rel |-> "last"]>>}

Next ==
    \/ \E s \in ScopeSets, r \in CallbackRequests : HandleCallback(s, r)
    \/ Exchange
    \/ GetUser(UserAnswers)
    \/ GetUserEmail(Responses({<<Email(AtExample, TRUE, TRUE)>>, <<>>},
                               OneOrTwoPages(c.apiURL \o "/user/emails")))
    \/ UserInOrg(MemberAnswers)
    \/ GetTeamsForOrg(Responses({<<TeamBY, TeamAX>>},
                                 OneOrTwoPages(c.apiURL \o "/user/teams")))
    \/ GetUserOrgs(Responses({<<[Login |-> "A"]>>},
                              OneOrTwoPages(c.apiURL \o "/user/orgs")))
    \/ GetUserOrgTeams(Responses({<<TeamBY, TeamAX>>},
                                  OneOrTwoPages(c.apiURL \o "/user/teams")))
    \/ \E s \in ScopeSets, identity \in RefreshIdentities : Refresh(s, identity)
    \/ \E s \in ScopeSets, callbackURL \in CallbackURLs, state \in States :
            GetLoginURL(s, callbackURL, state)
    \/ Return

Spec == Init /\ [][Next]_vars

-----------------------------------------------------------------------------
(* Specification SpecCrawl: one crawl (teamsForOrg, userOrgs,              *)
(* userOrgTeams or userEmail) against an upstream that answers each GET    *)
(* with any body and any Link header.                                      *)

StarDotExampleDotCom == <<"*", ".", "example", ".", "com">>

CrawlConfigs ==
    {Config0,
     [Config0 EXCEPT !.TeamNameField = "both", !.PreferredEmailDomain = StarDotExampleDotCom]}

\* the client of a caller that holds a token
SomeClient == Client(<<"g", "h", "o">>, NoHTTPClient)

\* the first URL of each crawl
CrawlBase(op) ==
    CASE op = "userOrgs" -> c.apiURL \o "/user/orgs"
      [] op = "userEmail" -> c.apiURL \o "/user/emails"
      [] OTHER -> c.apiURL \o "/user/teams"

InitCrawl ==
    /\ c \in Connectors(CrawlConfigs)
    /\ \E op \in CrawlOps :
        /\ call = [NoCall EXCEPT !.op = op, !.orgName = IF op = "teamsForOrg" THEN "A" ELSE ""]
        /\ pc = op
        /\ loc = [NoLocals EXCEPT !.client = SomeClient,
                                  !.apiURL = CrawlBase(op),
                                  !.orgName = IF op = "teamsForOrg" THEN "A" ELSE ""]
    /\ ret = NoRet
    /\ log = <<>>
    /\ resp = NoResp
    /\ wf = 1..MaxPage
    /\ session = [identity |-> NoIdentity, token |-> <<>>]
    /\ other = NoOther

NextCrawl ==
    \/ GetTeamsForOrg(Responses(TeamPages, LinkHeaders(CrawlBase("teamsForOrg"))))
    \/ GetUserOrgs(Responses(OrgPages, LinkHeaders(CrawlBase("userOrgs"))))
    \/ GetUserOrgTeams(Responses(TeamPages, LinkHeaders(CrawlBase("userOrgTeams"))))
    \/ GetUserEmail(Responses(EmailPages, LinkHeaders(CrawlBase("userEmail"))))

SpecCrawl == InitCrawl /\ [][NextCrawl]_vars

-----------------------------------------------------------------------------
(* Claims about the paginated fetcher, checked under SpecCrawl.            *)

\* the items of all pages that the crawl decoded, in the order served
CrawlItems == Flatten([j \in 1..Len(log) |-> log[j].got.body])

\* the GETs issued are those of pages 1..k of the crawl's collection, in order
GetsPages(k) ==
    /\ Len(log) = k
    /\ \A j \in 1..k : log[j].kind = "get" /\ log[j].url = PageURL(CrawlBase(call.op), j)

\* what the crawl returns when it processes items, each once and in order
CrawlOf(items) ==
    CASE call.op = "teamsForOrg" ->
            [val |-> teamsForOrgPage(items, call.orgName), err |-> nil]
      [] call.op = "userOrgs" -> [val |-> userOrgsPage(items), err |-> nil]
      [] call.op = "userOrgTeams" ->
            [val |-> userOrgTeamsPage(items, [o \in OrgLogins |-> <<>>]), err |-> nil]
      [] call.op = "userEmail" ->
            LET st == userEmailLoop(items, [primaryEmail |-> NoEmail,
                                            preferredEmails |-> <<>>, err |-> nil])
            IN  IF st.err # nil THEN [val |-> <<>>, err |-> st.err]
                ELSE userEmailChoice([NoLocals EXCEPT
                                         !.primaryEmail = st.primaryEmail,
                                         !.preferredEmails = st.preferredEmails]).ret

\* a page served to userEmail holds an address without "@" and a
\* preferred domain is configured
MalformedEmailServed ==
    /\ call.op = "userEmail"
    /\ c.preferredEmailDomain # <<>>
    /\ \E e \in Range(CrawlItems) : ~Cut(e.Email, "@").found

-----------------------------------------------------------------------------
(* Specification SpecOrgs: groupsForOrgs (org-list mode) for one user,     *)
(* from its call in getGroups.                                             *)

OrgsConfigs ==
    {[Config0 EXCEPT !.Orgs = <<Org("A", <<"X">>), Org("B", <<>>)>>],
     [Config0 EXCEPT !.Orgs = <<Org("B", <<"y", "X">>), Org("A", <<"y">>)>>,
                     !.TeamNameField = "slug"],
     [Config0 EXCEPT !.Orgs = <<Org("A", <<"X">>), Org("B", <<>>), Org("C", <<>>)>>]}

InitOrgs ==
    /\ c \in Connectors(OrgsConfigs)
    /\ call = [NoCall EXCEPT !.op = "groupsForOrgs", !.userName = "alice"]
    /\ LET k == groupsForOrgs([NoLocals EXCEPT !.client = SomeClient], "alice")
       IN  pc = k.pc /\ loc = k.loc /\ ret = k.ret
    /\ log = <<>>
    /\ resp = NoResp
    /\ wf = {}
    /\ session = [identity |-> NoIdentity, token |-> <<>>]
    /\ other = NoOther

NextOrgs ==
    \/ UserInOrg(MemberAnswers)
    \/ GetTeamsForOrg(Responses(TeamPages, OneOrTwoPages(c.apiURL \o "/user/teams")))

SpecOrgs == InitOrgs /\ [][NextOrgs]_vars

-----------------------------------------------------------------------------
(* Claims about org-list mode, checked under SpecOrgs.  What the upstream  *)
(* said is read off the log: the answer of each membership check, and the  *)
(* pages of the team fetch that follows it.                                *)

\* the URL of the membership check of the i-th configured org
MemberURL(i) ==
    c.apiURL \o "/orgs/" \o c.orgs[i].Name \o "/members/" \o call.userName

\* the place in the log of the membership check of the i-th org, 0 if none
CheckAt(i) ==
    LET at == {j \in 1..Len(log) : log[j].kind = "userInOrg" /\ log[j].url = MemberURL(i)}
    IN  IF at = {} THEN 0 ELSE CHOOSE j \in at : TRUE

\* the upstream confirmed the user as a member of the i-th org
Confirmed(i) == CheckAt(i) # 0 /\ log[CheckAt(i)].got = StatusNoContent

RECURSIVE PagesFrom(_)
\* the teams of the pages fetched from place j of the log on
PagesFrom(j) ==
    IF j > Len(log) \/ log[j].kind # "get" THEN <<>>
    ELSE log[j].got.body \o PagesFrom(j + 1)

RECURSIVE TeamsIn(_, _)
TeamsIn(teams, orgName) ==
    IF teams = <<>> THEN <<>>
    ELSE (IF Head(teams).Org.Login = orgName THEN <<Head(teams)>> ELSE <<>>)
         \o TeamsIn(Tail(teams), orgName)

\* the user's teams in the i-th org, as fetched after its membership check
UserTeams(i) == TeamsIn(PagesFrom(CheckAt(i) + 1), c.orgs[i].Name)

\* the names under which the connector knows these teams (teamNameField)
UserTeamNames(i) ==
    Flatten([j \in 1..Len(UserTeams(i)) |->
        CASE c.teamNameField = "both" -> <<UserTeams(i)[j].Name, UserTeams(i)[j].Slug>>
          [] c.teamNameField = "slug" -> <<UserTeams(i)[j].Slug>>
          [] OTHER -> <<UserTeams(i)[j].Name>>])

\* those of them that are in the org's allow-list
AllowedTeamNames(i) ==
    SelectSeq(UserTeamNames(i), LAMBDA n : \E j \in 1..Len(c.orgs[i].Teams) : c.orgs[i].Teams[j] = n)

\* some membership check or team fetch ended in a hard error
HardError ==
    \E j \in 1..Len(log) :
        \/ /\ log[j].kind = "userInOrg"
           /\ log[j].got \notin {StatusNoContent, StatusFound, StatusNotFound}
        \/ /\ log[j].kind = "get"
           /\ ~(log[j].got.transport = "ok" /\ log[j].got.status = StatusOK
                /\ log[j].got.decodes)

Resolved == pc = "done" /\ call.op = "groupsForOrgs"

\* C1: without a hard error, groupsForOrgs succeeds exactly when some
\* configured org has the user as a confirmed member and either no team
\* restriction or one of the user's teams in its allow-list; otherwise it
\* fails with the not-authorized error and an empty group list.
C1_AuthorizedIffSomeOrg ==
    (Resolved /\ ~HardError) =>
        IF \E i \in 1..Len(c.orgs) :
              Confirmed(i) /\ (c.orgs[i].Teams = <<>> \/ AllowedTeamNames(i) # <<>>)
        THEN ret.err = nil
        ELSE ret.err = notInRequiredOrgs(call.userName) /\ ret.val = <<>>

\* authorized by the second org's team after the first org's check said
\* "not found"
C1_Witness ==
    /\ Resolved /\ ~HardError /\ ret.err = nil
    /\ ~Confirmed(1)
    /\ Confirmed(2) /\ c.orgs[2].Teams # <<>> /\ AllowedTeamNames(2) # <<>>

\* a member of a team-restricted org with teams there but none allowed,
\* and of no other org: not authorized
C1_WitnessDenied ==
    /\ Resolved /\ ~HardError /\ ret.err # nil
    /\ Confirmed(1) /\ UserTeams(1) # <<>>

\* C2 as stated: the groups of a successful resolution are org:team for
\* every team-restricted org with the user as a member and every allowed
\* team of the user there, in configuration order; an unrestricted org
\* adds no group.
C2_AsStated ==
    (Resolved /\ ret.err = nil) =>
        ret.val = Flatten([i \in 1..Len(c.orgs) |->
                      IF Confirmed(i) /\ c.orgs[i].Teams # <<>>
                      THEN formatTeamNames(c.orgs[i].Name, AllowedTeamNames(i))
                      ELSE <<>>])

\* C2 amended: an unrestricted org with the user as a member adds org:team
\* for every team of the user in it.
C2_GroupsOfMemberOrgs ==
    (Resolved /\ ret.err = nil) =>
        ret.val = Flatten([i \in 1..Len(c.orgs) |->
                      IF ~Confirmed(i) THEN <<>>
                      ELSE IF c.orgs[i].Teams # <<>>
                      THEN formatTeamNames(c.orgs[i].Name, AllowedTeamNames(i))
                      ELSE formatTeamNames(c.orgs[i].Name, UserTeamNames(i))])

\* the user is in A (allow-list X, has team X), in B (unrestricted, has
\* team Y there) and not in C
C2_Witness ==
    /\ Resolved /\ ret.err = nil /\ Len(c.orgs) = 3
    /\ Confirmed(1) /\ Confirmed(2) /\ ~Confirmed(3) /\ CheckAt(3) # 0
    /\ ret.val = <<"A:X", "B:Y">>

\* C3: a membership check answered 204 is followed by the team fetch of
\* that org; one answered 404 or 302 is followed, without error, by the
\* check of the next configured org, or by the end of the resolution after
\* the last org; any other answer ends the resolution at once with an
\* error other than not-authorized and no groups.
C3_MembershipStatus ==
    \A i \in 1..Len(c.orgs) :
        LET j == CheckAt(i)
            last == j = Len(log)
        IN  j # 0 =>
            CASE log[j].got = StatusNoContent ->
                    IF last THEN pc = "teamsForOrg" /\ loc.orgName = c.orgs[i].Name
                    ELSE log[j + 1].kind = "get"
              [] log[j].got \in {StatusNotFound, StatusFound} ->
                    IF ~last THEN log[j + 1].kind = "userInOrg" /\ CheckAt(i + 1) = j + 1
                    ELSE IF i < Len(c.orgs) THEN pc = "userInOrg" /\ loc.i = i + 1
                    ELSE Resolved /\ ret.err \in {nil, notInRequiredOrgs(call.userName)}
              [] OTHER ->
                    /\ last /\ Resolved /\ ret.val = <<>>
                    /\ ret.err \notin {nil, notInRequiredOrgs(call.userName)}

\* a redirect on the first org, then a hard error on the second
C3_Witness ==
    /\ Resolved /\ Len(log) = 2
    /\ log[1].got = StatusFound /\ log[2].got = StatusInternalServerError
    /\ ret.err # nil

-----------------------------------------------------------------------------
(* Claims about HandleCallback and Refresh, checked under Spec.            *)

\* C7: a callback request with a non-empty error code makes HandleCallback
\* return the structured upstream error of that code and its description,
\* with no identity and without any outbound call.
C7_ErrorCallbackNoCalls ==
    (call.op = "HandleCallback" /\ call.r.error # "") =>
        /\ pc = "done"
        /\ log = <<>>
        /\ ret.err = oauth2Error(call.r.error, call.r.error_description)
        /\ ret.err.kind = "oauth2Error"
        /\ ret.val = NoIdentity

\* the error callback that also carries a code
C7_Witness ==
    /\ call.op = "HandleCallback" /\ pc = "done"
    /\ call.r.error = "access_denied" /\ call.r.code # ""

\* C8: a successful HandleCallback returns connector data exactly when
\* offline access was requested, and the data decodes to the token of the
\* code exchange; a Refresh on the identity the server keeps issues every
\* outbound call with that token and exchanges no code.
C8_ConnectorDataIsToken ==
    /\ (call.op = "HandleCallback" /\ pc = "done" /\ ret.err = nil) =>
          /\ (ret.val.ConnectorData # <<>>) = call.s.OfflineAccess
          /\ call.s.OfflineAccess =>
                /\ Exchanged(log) \in Tokens
                /\ Unmarshal(ret.val.ConnectorData)
                     = [AccessToken |-> Exchanged(log), ok |-> TRUE]
    /\ (call.op = "Refresh" /\ call.identity = session.identity) =>
          \A j \in 1..Len(log) :
              log[j].kind # "Exchange" /\ log[j].token = session.token

\* a refresh of a login whose token needs escaping, after two calls
C8_Witness ==
    /\ call.op = "Refresh" /\ call.identity = session.identity
    /\ pc = "done" /\ ret.err = nil /\ Len(log) >= 2
    /\ session.token = <<"\"", "\\", "t">>

\* C9: Refresh of an identity without connector data returns an error and
\* the prior identity unchanged, without any outbound call.
C9_NoConnectorData ==
    (call.op = "Refresh" /\ call.identity.ConnectorData = <<>>) =>
        /\ pc = "done"
        /\ log = <<>>
        /\ ret.err # nil
        /\ ret.val = call.identity

\* the identity of a login without offline access is refreshed
C9_Witness ==
    /\ call.op = "Refresh" /\ call.identity.ConnectorData = <<>>
    /\ call.identity.UserID # "" /\ call.identity.Groups # <<>>
    /\ pc = "done"

\* C10: whatever Refresh returns, and with or without an error, has the
\* connector data, the user id and the email-verified flag of the prior
\* identity, and its groups too unless group resolution is required.
C10_RefreshFrame ==
    (call.op = "Refresh" /\ pc = "done") =>
        /\ ret.val.ConnectorData = call.identity.ConnectorData
        /\ ret.val.UserID = call.identity.UserID
        /\ ret.val.EmailVerified = call.identity.EmailVerified
        /\ ~groupsRequired(call.s.Groups) => ret.val.Groups = call.identity.Groups

\* another upstream user answers the refresh of a login, and the group
\* resolution then fails: the names are overwritten, the id is kept
C10_Witness ==
    /\ call.op = "Refresh" /\ pc = "done" /\ ret.err # nil
    /\ call.identity.UserID # ""
    /\ ret.val.PreferredUsername # call.identity.PreferredUsername
    /\ ret.val.Username # call.identity.Username

-----------------------------------------------------------------------------
(* Claims about the no-filter / no-flag mode, checked under Spec.          *)

\* no org list, no legacy org, and the groups scope not requested or the
\* load-all flag off
NoFilterNoFlag ==
    Len(c.orgs) = 0 /\ c.org = "" /\ (~call.s.Groups \/ ~c.loadAllGroups)

\* an org, membership-check or team call
GroupCall(e) ==
    \/ e.kind = "userInOrg"
    \/ /\ e.kind = "get"
       /\ e.url \in PageURLs(c.apiURL \o "/user/orgs") \cup PageURLs(c.apiURL \o "/user/teams")

LoginOrRefresh == call.op \in {"HandleCallback", "Refresh"}

\* C11 as stated: in the no-filter / no-flag mode no group call is issued
\* and the identity HandleCallback or Refresh returns carries no groups,
\* whatever groups the prior identity of a Refresh carried.
C11_AsStated ==
    (LoginOrRefresh /\ NoFilterNoFlag) =>
        /\ \A j \in 1..Len(log) : ~GroupCall(log[j])
        /\ (pc = "done" /\ ret.err = nil) => ret.val.Groups = <<>>

\* C11 amended: Refresh returns no groups when the groups scope was
\* requested and the groups of the prior identity when it was not.
C11_NoGroupResolution ==
    (LoginOrRefresh /\ NoFilterNoFlag) =>
        /\ \A j \in 1..Len(log) : ~GroupCall(log[j])
        /\ (pc = "done" /\ ret.err = nil) =>
              ret.val.Groups = IF call.op = "Refresh" /\ ~call.s.Groups
                               THEN call.identity.Groups ELSE <<>>

\* a refresh with the groups scope and the load-all flag off of an identity
\* that carried groups: the groups are gone
C11_Witness ==
    /\ call.op = "Refresh" /\ NoFilterNoFlag /\ call.s.Groups
    /\ pc = "done" /\ ret.err = nil
    /\ call.identity.Groups # <<>> /\ ret.val.Groups = <<>>

-----------------------------------------------------------------------------
(* Specification SpecGroups: one getGroups, with and without the groups    *)
(* scope, with an org list, a legacy org or neither, with and without the  *)
(* load-all flag, and under every team-name projection.                    *)

TeamNameFields == {"", "name", "slug", "both"}

GroupsConfigs ==
    UNION {{[Config0 EXCEPT !.Orgs = <<Org("A", <<"X">>), Org("B", <<>>)>>,
                            !.TeamNameField = f, !.LoadAllGroups = loadAllGroups],
            [Config0 EXCEPT !.Org = "A", !.TeamNameField = f,
                            !.LoadAllGroups = loadAllGroups],
            [Config0 EXCEPT !.Org = "B", !.TeamNameField = f,
                            !.LoadAllGroups = loadAllGroups],
            [Config0 EXCEPT !.TeamNameField = f, !.LoadAllGroups = loadAllGroups]}
           : f \in TeamNameFields, loadAllGroups \in BOOLEAN}

\* getGroups as HandleCallback and Refresh call it: under groupsRequired
InitGroups ==
    /\ c \in Connectors(GroupsConfigs)
    /\ \E groupScope \in BOOLEAN :
        /\ groupsRequired(groupScope)
        /\ call = [NoCall EXCEPT !.op = "getGroups", !.s = Scopes(groupScope, FALSE),
                                 !.userName = "alice"]
        /\ LET k == getGroups([NoLocals EXCEPT !.client = SomeClient], groupScope, "alice")
           IN  pc = k.pc /\ loc = k.loc /\ ret = k.ret
    /\ log = <<>>
    /\ resp = NoResp
    /\ wf = IF pc \in CrawlOps THEN 1..MaxPage ELSE {}
    /\ session = [identity |-> NoIdentity, token |-> <<>>]
    /\ other = NoOther

NextGroups ==
    \/ UserInOrg(MemberAnswers)
    \/ GetTeamsForOrg(Responses(TeamPages, OneOrTwoPages(c.apiURL \o "/user/teams")))
    \/ GetUserOrgs(Responses(OrgPages, OneOrTwoPages(c.apiURL \o "/user/orgs")))
    \/ GetUserOrgTeams(Responses(TeamPages, OneOrTwoPages(c.apiURL \o "/user/teams")))

SpecGroups == InitGroups /\ [][NextGroups]_vars

-----------------------------------------------------------------------------
(* Claims about the team-name projection, checked under SpecGroups.        *)

\* the group names of one team under the projection mode
Projection(team) ==
    CASE c.teamNameField = "both" -> <<team.Name, team.Slug>>
      [] c.teamNameField = "slug" -> <<team.Slug>>
      [] OTHER -> <<team.Name>>

ProjectAll(teams) == Flatten([j \in 1..Len(teams) |-> Projection(teams[j])])

Prefixed(org, names) == [j \in 1..Len(names) |-> org \o ":" \o names[j]]

\* the items of the pages fetched from the collection at base, in order
Fetched(base) ==
    Flatten([j \in 1..Len(log) |->
        IF log[j].kind = "get" /\ log[j].url \in PageURLs(base)
        THEN log[j].got.body ELSE <<>>])

InAllowList(i, n) == \E j \in 1..Len(c.orgs[i].Teams) : c.orgs[i].Teams[j] = n

GroupsResolved == pc = "done" /\ call.op = "getGroups" /\ ret.err = nil

\* what the load-all mode returns: each org, then its teams
LoadAllExpected(each(_, _)) ==
    LET orgs == Fetched(c.apiURL \o "/user/orgs")
        teams == Fetched(c.apiURL \o "/user/teams")
    IN  Flatten([k \in 1..Len(orgs) |->
            <<orgs[k].Login>> \o each(orgs[k].Login, TeamsIn(teams, orgs[k].Login))])

\* C12 as stated: in every mode a surviving team contributes org:name and
\* org:slug under "both", and one string, org:name or org:slug, otherwise.
C12_AsStated ==
    GroupsResolved =>
        LET each(org, teams) == Prefixed(org, ProjectAll(teams))
        IN  ret.val =
              CASE Len(c.orgs) > 0 ->
                     Flatten([i \in 1..Len(c.orgs) |->
                         IF ~Confirmed(i) THEN <<>>
                         ELSE each(c.orgs[i].Name,
                                  SelectSeq(UserTeams(i), LAMBDA team :
                                      \/ c.orgs[i].Teams = <<>>
                                      \/ \E n \in Range(Projection(team)) : InAllowList(i, n)))])
                [] c.org # "" ->
                     each(c.org, TeamsIn(Fetched(c.apiURL \o "/user/teams"), c.org))
                [] OTHER -> LoadAllExpected(each)

\* C12 amended: the legacy single-org mode returns the projected names
\* without the org prefix, and an org of the org-list with an allow-list
\* keeps of a team's projected names those that are in the list.
C12_Projection ==
    GroupsResolved =>
        LET each(org, teams) == Prefixed(org, ProjectAll(teams))
        IN  ret.val =
              CASE Len(c.orgs) > 0 ->
                     Flatten([i \in 1..Len(c.orgs) |->
                         IF ~Confirmed(i) THEN <<>>
                         ELSE IF c.orgs[i].Teams = <<>> THEN each(c.orgs[i].Name, UserTeams(i))
                         ELSE Prefixed(c.orgs[i].Name,
                                  SelectSeq(ProjectAll(UserTeams(i)),
                                            LAMBDA n : InAllowList(i, n)))])
                [] c.org # "" ->
                     ProjectAll(TeamsIn(Fetched(c.apiURL \o "/user/teams"), c.org))
                [] OTHER -> LoadAllExpected(each)

\* under "both", team X of org A with allow-list [X] gives A:X alone, and
\* team Y of the unrestricted org B gives B:Y and B:y
C12_Witness ==
    /\ GroupsResolved /\ c.teamNameField = "both" /\ Len(c.orgs) > 0
    /\ ret.val = <<"A:X", "B:Y", "B:y">>

-----------------------------------------------------------------------------
(* Specification SpecEmail: one call of user, with and without the         *)
(* noreply flag, an enterprise host and a preferred e-mail domain.         *)

GheDotCorp == <<"ghe", ".", "corp">>
GithubDotCom == <<"github", ".", "com">>
ExampleDotCom == <<"example", ".", "com">>
MailDotStarDotOrg == <<"mail", ".", "*", ".", "org">>

EmailConfigs ==
    {[Config0 EXCEPT !.NoreplyPrivateEmail = n, !.HostName = h,
                     !.PreferredEmailDomain = d]
     : n \in BOOLEAN, h \in {<<>>, GheDotCorp, GithubDotCom},
       d \in {<<>>, StarDotExampleDotCom, ExampleDotCom, MailDotStarDotOrg}}

InitEmail ==
    /\ c \in Connectors(EmailConfigs)
    /\ call = [NoCall EXCEPT !.op = "user"]
    /\ pc = "user"
    /\ loc = [NoLocals EXCEPT !.client = SomeClient]
    /\ ret = NoRet
    /\ log = <<>>
    /\ resp = NoResp
    /\ wf = {}
    /\ session = [identity |-> NoIdentity, token |-> <<>>]
    /\ other = NoOther

NextEmail ==
    \/ GetUser(UserAnswers)
    \/ GetUserEmail(Responses(EmailPages, OneOrTwoPages(c.apiURL \o "/user/emails")))

SpecEmail == InitEmail /\ [][NextEmail]_vars

-----------------------------------------------------------------------------
(* Claims about the e-mail resolution, checked under SpecEmail.            *)

\* the label-wise comparison of the configured glob with a domain
GlobMatches(domain) ==
    LET glob == Split(c.preferredEmailDomain, ".")
        labels == Split(domain, ".")
    IN  /\ Len(glob) = Len(labels)
        /\ \A i \in 1..Len(glob) : glob[i] = labels[i] \/ glob[i] = <<"*">>

\* the e-mails of the pages fetched, in crawl order
EmailsSeen == Fetched(c.apiURL \o "/user/emails")

\* an enterprise host has no verification: every e-mail counts as verified
CountsAsVerified(email) == c.hostName # <<>> \/ email.Verified

HasAt(email) == \E i \in 1..Len(email.Email) : email.Email[i] = "@"

DomainOf(email) ==
    LET at == CHOOSE i \in 1..Len(email.Email) :
                  email.Email[i] = "@" /\ \A j \in 1..(i - 1) : email.Email[j] # "@"
    IN  SubSeq(email.Email, at + 1, Len(email.Email))

PreferredSeen ==
    SelectSeq(EmailsSeen, LAMBDA email :
        /\ c.preferredEmailDomain # <<>>
        /\ CountsAsVerified(email) /\ HasAt(email) /\ GlobMatches(DomainOf(email)))

PrimarySeen == SelectSeq(EmailsSeen, LAMBDA email : CountsAsVerified(email) /\ email.Primary)

Answered(e) == e.got.transport = "ok" /\ e.got.status = StatusOK /\ e.got.decodes

\* user has returned after a private-emails crawl that ran to its last
\* page without an error
EmailCrawlCompleted ==
    /\ pc = "done" /\ call.op = "user"
    /\ Len(log) >= 2 /\ \A j \in 1..Len(log) : Answered(log[j])
    /\ c.preferredEmailDomain # <<>> => \A j \in 1..Len(EmailsSeen) : HasAt(EmailsSeen[j])

noUsableEmail == Errorf("github: user has no verified, primary email or preferred-domain email")

Profile == log[1].got.body

UserReturned == pc = "done" /\ call.op = "user" /\ ret.err = nil

\* {numeric id}+{login}@users.noreply.github.com
Synthesized(u) ==
    <<ToString(u.ID) \o "+" \o u.Login, "@",
      "users", ".", "noreply", ".", "github", ".", "com">>

EmailsCall(e) == e.kind = "get" /\ e.url \in PageURLs(c.apiURL \o "/user/emails")

ResolvedByPolicy ==
    IF Profile.Email # <<>> /\ c.preferredEmailDomain = <<>>
    THEN Len(log) = 1 /\ ret.val.Email = Profile.Email
    ELSE /\ Len(log) >= 2
         /\ \E k \in 1..Len(EmailsSeen) : ret.val.Email = EmailsSeen[k].Email

\* C15 as stated: with any host name configured the synthesized address is
\* never returned, flag or no flag: the e-mail is resolved by the
\* public-email / private-emails policy.
C15_AsStated ==
    (UserReturned /\ c.hostName # <<>>) =>
        ret.val.Email # Synthesized(Profile) /\ ResolvedByPolicy

\* C15 amended: with any host name but github.com configured.
C15_NoNoreplyOnEnterpriseHost ==
    (UserReturned /\ c.hostName # <<>> /\ c.hostName # GithubDotCom) =>
        ret.val.Email # Synthesized(Profile) /\ ResolvedByPolicy

\* the flag is set on an enterprise host: the public e-mail is returned
C15_Witness ==
    /\ UserReturned /\ c.hostName = GheDotCorp /\ c.noreplyPrivateEmail
    /\ Len(log) = 1 /\ ret.val.Email = AtExample

Addresses(emails) == [k \in 1..Len(emails) |-> emails[k].Email]

\* the domains e-mail addresses may have
Domains ==
    {<<"example", ".", "com">>, <<"mail", ".", "example", ".", "com">>,
     <<"mail", ".", "example", ".", "org">>, <<"a", ".", "mail", ".", "example", ".", "com">>,
     <<"*", ".", "example", ".", "com">>, <<"com">>, <<>>}

\* C16: isPreferredEmailDomain holds exactly when glob and domain have the
\* same number of labels and each label of the glob equals the domain's or
\* is "*"; so *.example.com matches mail.example.com and matches neither
\* example.com nor mail.example.org.  The matches the crawl collects are
\* the verified e-mails seen whose domain matches in this sense.
C16_LabelWiseGlob ==
    c.preferredEmailDomain # <<>> =>
        /\ \A domain \in Domains : isPreferredEmailDomain(domain) = GlobMatches(domain)
        /\ c.preferredEmailDomain = StarDotExampleDotCom =>
              /\ isPreferredEmailDomain(<<"mail", ".", "example", ".", "com">>)
              /\ ~isPreferredEmailDomain(<<"example", ".", "com">>)
              /\ ~isPreferredEmailDomain(<<"mail", ".", "example", ".", "org">>)
        /\ (pc = "userEmail" /\ loc.gets > 0) =>
              Addresses(loc.preferredEmails) = Addresses(PreferredSeen)

\* the crawl has kept alice@mail.example.com under the glob *.example.com
\* and passed over alice@mail.example.org
C16_Witness ==
    /\ pc = "userEmail" /\ c.preferredEmailDomain = StarDotExampleDotCom
    /\ c.hostName = <<>>
    /\ Len(EmailsSeen) = 2 /\ EmailsSeen[2].Email = AtOther
    /\ Len(loc.preferredEmails) = 1 /\ loc.preferredEmails[1].Email = AtMail

-----------------------------------------------------------------------------
(* Claims about LoginURL and the upstream scopes, checked under Spec.      *)

\* C17: LoginURL returns an error and no URL exactly when callbackURL is
\* not the configured redirect URI; otherwise it returns a URL of the
\* authorization endpoint that carries the given state.
C17_LoginURL ==
    call.op = "LoginURL" =>
        /\ pc = "done"
        /\ (ret.err # nil) = (call.callbackURL # c.redirectURI)
        /\ ret.err # nil => ret.val = NoURL
        /\ ret.err = nil =>
              /\ ret.val.state = call.state
              /\ ret.val.redirect_uri = c.redirectURI
              /\ ret.val.AuthURL \in {"https://github.com/login/oauth/authorize",
                                      "https://ghe.corp/login/oauth/authorize"}

\* a login URL of the enterprise host
C17_Witness ==
    /\ call.op = "LoginURL" /\ ret.err = nil /\ call.state = "state2"
    /\ ret.val.state = "state2" /\ c.hostName # <<>>

\* the scopes the claim allows for the connector and the scopes argument
ScopesRequired ==
    IF c.org # "" \/ Len(c.orgs) > 0 \/ call.s.Groups
    THEN <<"user:email", "read:org">> ELSE <<"user:email">>

\* C18: the scopes of the oauth2 configuration LoginURL, HandleCallback and
\* Refresh build are user:email, and read:org with it exactly when the
\* legacy org is set, the org list is non-empty or the groups scope was
\* requested, and nothing else.
C18_Scopes ==
    /\ (call.op = "LoginURL" /\ ret.err = nil) =>
          ret.val.scope = JoinSpace(ScopesRequired)
    /\ (call.op \in {"HandleCallback", "Refresh"} /\ pc \notin {"idle", "done"}) =>
          loc.oauth2Config.Scopes = ScopesRequired
    /\ oauth2Config(call.s).Scopes = ScopesRequired

\* a login without the groups scope on a connector with a legacy org
C18_Witness ==
    /\ call.op = "HandleCallback" /\ pc = "user" /\ ~call.s.Groups /\ c.org # ""
    /\ loc.oauth2Config.Scopes = <<"user:email", "read:org">>

-----------------------------------------------------------------------------
(* Claims about the identity of a login, checked under Spec.               *)

\* the profile the GET /user of this call returned
ProfileFetched ==
    LET at == CHOOSE j \in 1..Len(log) : log[j].kind = "get" /\ log[j].url = c.apiURL \o "/user"
    IN  log[at].got.body

Decimal(id) == CASE id = 7 -> "7" [] id = 8 -> "8" [] OTHER -> "?"

LoggedIn == call.op = "HandleCallback" /\ pc = "done" /\ ret.err = nil

\* C19: the identity of a successful HandleCallback has the profile's
\* display name, or its login when the name is empty, as username; the
\* login as preferred username; the login or the decimal numeric id as
\* user id, by useLoginAsID; and the email-verified flag set, also when
\* the e-mail is the public one and the private-emails endpoint was not
\* asked.
C19_Identity ==
    LoggedIn =>
        LET u == ProfileFetched
        IN  /\ ret.val.Username = (IF u.Name # "" THEN u.Name ELSE u.Login)
            /\ ret.val.PreferredUsername = u.Login
            /\ ret.val.UserID = (IF c.useLoginAsID THEN u.Login ELSE Decimal(u.ID))
            /\ ret.val.EmailVerified = TRUE

\* the login as id, and the public e-mail without a private-emails call
C19_Witness ==
    /\ LoggedIn /\ c.useLoginAsID /\ ret.val.UserID = "alice"
    /\ ret.val.Username = "Alice A"
    /\ \A j \in 1..Len(log) : ~EmailsCall(log[j])
    /\ ret.val.Email = AtExample /\ ret.val.EmailVerified

-----------------------------------------------------------------------------
(* Claims about failed outbound calls, checked under Spec.                 *)

\* the outbound call failed: no token, a transport error, a status other
\* than 200, an undecodable body, or a hard membership status
Failed(e) ==
    CASE e.kind = "Exchange" -> e.got = <<>>
      [] e.kind = "userInOrg" -> e.got \notin {StatusNoContent, StatusFound, StatusNotFound}
      [] OTHER -> ~Answered(e)

\* C20 as stated: within one HandleCallback or Refresh a failed outbound
\* call is the last call, the operation returns an error, and the value
\* returned with the error carries nothing obtained during the call: the
\* zero identity for HandleCallback, the prior identity for Refresh.
C20_AsStated ==
    LoginOrRefresh =>
        \A j \in 1..Len(log) :
            Failed(log[j]) =>
                /\ j = Len(log)
                /\ pc = "done" /\ ret.err # nil
                /\ ret.val = IF call.op = "Refresh" THEN call.identity ELSE NoIdentity

\* C20, the part that holds: a failed outbound call is the last call of
\* the operation, which returns an error.
C20_NoRetryNoFurtherCall ==
    LoginOrRefresh =>
        \A j \in 1..Len(log) :
            Failed(log[j]) => j = Len(log) /\ pc = "done" /\ ret.err # nil

\* a login whose team fetch failed returns the profile's identity with
\* the error
C20_Witness ==
    /\ call.op = "HandleCallback" /\ pc = "done" /\ ret.err # nil
    /\ Len(log) = 3 /\ Failed(log[3])
    /\ ret.val.UserID = "7" /\ ret.val.Email = AtExample

-----------------------------------------------------------------------------
(* Specification SpecTwo: two invocations, each a HandleCallback or a      *)
(* Refresh, run concurrently on one connector.  One of them takes a step   *)
(* at a time; Switch hands the processor to the other one.  The upstream   *)
(* answers each token with the profile of the user the token belongs to.   *)

TwoConfig == [Config0 EXCEPT !.Org = "A", !.TeamNameField = "both"]

\* the user whose login obtained the token
UserOf(token) ==
    IF token = <<"g", "h", "o">> THEN User("Alice A", "alice", 7, AtExample)
    ELSE User("", "bob", 8, <<>>)

\* the invocation that runs, as the record that other holds of one that waits
Running ==
    [call |-> call, pc |-> pc, loc |-> loc, ret |-> ret, log |-> log,
     resp |-> resp, wf |-> wf]

\* the scheduler suspends the running invocation and resumes the other
Switch ==
    /\ other' = Running
    /\ call' = other.call
    /\ pc' = other.pc
    /\ loc' = other.loc
    /\ ret' = other.ret
    /\ log' = other.log
    /\ resp' = other.resp
    /\ wf' = other.wf
    /\ UNCHANGED <<c, session>>

\* the identities of earlier logins that the server hands to Refresh
TwoIdentities ==
    {[HandleCallbackIdentity(UserOf(t)) EXCEPT !.ConnectorData = Marshal(t)] : t \in Tokens}

InitTwo ==
    /\ c = Open(TwoConfig).g
    /\ call = NoCall
    /\ pc = "idle"
    /\ loc = NoLocals
    /\ ret = NoRet
    /\ log = <<>>
    /\ resp = NoResp
    /\ wf = {}
    /\ session = [identity |-> NoIdentity, token |-> <<>>]
    /\ other = NoOther

NextTwo ==
    \/ \E s \in {Scopes(TRUE, TRUE), Scopes(FALSE, FALSE)} :
            HandleCallback(s, Request("", "", "code"))
    \/ \E s \in {Scopes(TRUE, FALSE)}, identity \in TwoIdentities : Refresh(s, identity)
    \/ Exchange
    \/ GetUser({Response("error", 0, FALSE, <<>>, <<>>),
                Response("ok", StatusOK, TRUE, UserOf(loc.client.token), <<>>)})
    \/ GetUserEmail(Responses({<<Email(AtMail, TRUE, TRUE)>>}, {<<>>}))
    \/ GetTeamsForOrg(Responses({<<TeamBY, TeamAX>>, <<TeamAY>>}, {<<>>}))
    \/ Switch

SpecTwo == InitTwo /\ [][NextTwo]_vars

\* the control state at the entry of the running invocation
Entry ==
    IF call.op = "HandleCallback" THEN HandleCallbackEntry(call.s, call.r)
    ELSE RefreshEntry(call.s, call.identity)

\* the control state after the outbound call issued in control state k
\* was answered by got
Answer(k, got) ==
    CASE k.pc = "Exchange" -> ExchangeAnswer(k.loc, got)
      [] k.pc = "user" -> userAnswer(k.loc, got)
      [] k.pc = "userEmail" -> userEmailAnswer(k.loc, got)
      [] k.pc = "userInOrg" -> userInOrgAnswer(k.loc, got)
      [] k.pc = "teamsForOrg" -> teamsForOrgAnswer(k.loc, got)
      [] k.pc = "userOrgs" -> userOrgsAnswer(k.loc, got)
      [] k.pc = "userOrgTeams" -> userOrgTeamsAnswer(k.loc, got)
      [] OTHER -> k

RECURSIVE RunAlone(_, _)
\* the control state that the invocation reaches from k when it runs
\* alone and its outbound calls get the answers of calls, in order
RunAlone(k, calls) ==
    IF calls = <<>> THEN k ELSE RunAlone(Answer(k, Head(calls).got), Tail(calls))

\* the token of the running invocation: the one its code exchange
\* obtained, or the one in the connector data handed to Refresh
OwnToken ==
    IF call.op = "Refresh" THEN Unmarshal(call.identity.ConnectorData).AccessToken
    ELSE Exchanged(log)

\* C21: of two invocations interleaved on one connector, each is, after
\* every step, in the control state (position, locals, result) that it
\* reaches when it runs alone and gets the same upstream answers; each of
\* its GETs carries its own token; and the connector is the one that Open
\* built, no field of it written.
C21_Isolation ==
    /\ c = Open(TwoConfig).g
    /\ call.op \in {"HandleCallback", "Refresh"} =>
        /\ [pc |-> pc, loc |-> loc, ret |-> ret] = RunAlone(Entry, log)
        /\ \A j \in 1..Len(log) : log[j].kind = "get" => log[j].token = OwnToken

\* a login of alice returned her identity while a refresh for bob on the
\* same connector was between its profile call and its team fetch
C21_Witness ==
    /\ call.op = "HandleCallback" /\ pc = "done" /\ ret.err = nil
    /\ ret.val.UserID = "7" /\ ret.val.Groups = <<"X", "x">>
    /\ other.call.op = "Refresh" /\ other.pc = "teamsForOrg"
    /\ other.loc.identity.PreferredUsername = "bob"
    /\ Len(log) = 3 /\ Len(other.log) = 2

-----------------------------------------------------------------------------
(* Specification SpecOpen: Config.Open on any configuration, and then any  *)
(* sequence of LoginURL, HandleCallback and Refresh on the connector that  *)
(* it returned.                                                            *)

HostWithPath == <<"ghe", ".", "corp", "/", "api">>

StarDotStar == <<"*", ".", "*">>

OpenConfigs ==
    {[Config0 EXCEPT !.Org = org, !.Orgs = orgs, !.HostName = hostName,
                     !.RootCA = rootCA, !.TeamNameField = teamNameField,
                     !.LoadAllGroups = loadAllGroups,
                     !.PreferredEmailDomain = preferredEmailDomain] :
        org \in {"", "A"},
        orgs \in {<<>>, <<Org("A", <<"X">>)>>},
        hostName \in {<<>>, GheDotCorp, HostWithPath},
        rootCA \in {"", "ca.pem", UnreadableFile},
        teamNameField \in {"", "slug", "id"},
        loadAllGroups \in BOOLEAN,
        preferredEmailDomain \in {<<>>, StarDotExampleDotCom, StarDotStar, <<"*">>}}

\* Config.Open: the caller keeps the connector, or gets the error
OpenConfig(cfg) ==
    /\ pc = "closed"
    /\ LET o == Open(cfg)
       IN  /\ c' = o.g
           /\ ret' = [val |-> o.g, err |-> o.err]
           /\ pc' = IF o.err = nil THEN "idle" ELSE "failed"
    /\ call' = [NoCall EXCEPT !.op = "Open", !.cfg = cfg]
    /\ UNCHANGED <<loc, log, resp, wf, session, other>>

InitOpen ==
    /\ c = NoConnector
    /\ call = NoCall
    /\ pc = "closed"
    /\ loc = NoLocals
    /\ ret = NoRet
    /\ log = <<>>
    /\ resp = NoResp
    /\ wf = {}
    /\ session = [identity |-> NoIdentity, token |-> <<>>]
    /\ other = NoOther

NextOpen ==
    \/ \E cfg \in OpenConfigs : OpenConfig(cfg)
    \/ \E s \in {Scopes(TRUE, TRUE)} : HandleCallback(s, Request("", "", "code"))
    \/ Exchange
    \/ GetUser({Response("ok", StatusOK, TRUE, User("", "bob", 8, <<>>), <<>>)})
    \/ GetUserEmail(Responses({<<Email(AtExample, TRUE, TRUE)>>}, {<<>>}))
    \/ UserInOrg({StatusNoContent, StatusNotFound})
    \/ GetTeamsForOrg(Responses({<<TeamAX>>}, {<<>>}))
    \/ GetUserOrgs(Responses({<<[Login |-> "A"]>>}, {<<>>}))
    \/ GetUserOrgTeams(Responses({<<TeamAX>>}, {<<>>}))
    \/ \E s \in {Scopes(TRUE, FALSE)}, identity \in {session.identity} : Refresh(s, identity)
    \/ \E s \in {Scopes(FALSE, FALSE)}, state \in States :
            GetLoginURL(s, Config0.RedirectURI, state)
    \/ Return

SpecOpen == InitOpen /\ [][NextOpen]_vars

\* Open was called and has returned
Opened == call.op = "Open" /\ pc \in {"idle", "failed"}

\* Open returned a configuration error and no connector
Rejected == pc = "failed" /\ ret.err # nil /\ ret.val = NoConnector /\ c = NoConnector

\* C22: Open returns a configuration error and no connector whenever both
\* the legacy org and the org list are non-empty, whatever the other
\* fields are.
C22_OrgAndOrgsRejected ==
    Opened /\ call.cfg.Org # "" /\ call.cfg.Orgs # <<>> => Rejected

\* both are set in a configuration that is valid otherwise
C22_Witness ==
    /\ Opened /\ Rejected
    /\ call.cfg = [Config0 EXCEPT !.Org = "A", !.Orgs = <<Org("A", <<"X">>)>>,
                                  !.HostName = GheDotCorp, !.RootCA = "ca.pem",
                                  !.TeamNameField = "slug",
                                  !.PreferredEmailDomain = StarDotExampleDotCom]

\* C23: Open returns a configuration error and no connector whenever the
\* host name contains a slash, whatever the other fields are.
C23_HostNameSlashRejected ==
    Opened /\ (\E j \in 1..Len(call.cfg.HostName) : call.cfg.HostName[j] = "/") => Rejected

\* a slash inside the host name of a configuration that is valid otherwise
C23_Witness ==
    /\ Opened /\ Rejected
    /\ call.cfg = [Config0 EXCEPT !.Orgs = <<Org("A", <<"X">>)>>,
                                  !.HostName = HostWithPath, !.RootCA = "ca.pem"]

\* C24: Open returns a configuration error and no connector whenever the
\* preferred-email-domain glob is non-empty and ends in a star, whatever
\* the other fields are.
C24_GlobStarRejected ==
    Opened /\ call.cfg.PreferredEmailDomain # <<>>
           /\ call.cfg.PreferredEmailDomain[Len(call.cfg.PreferredEmailDomain)] = "*"
        => Rejected

\* the glob that is a lone star, in a configuration that is valid otherwise
C24_Witness ==
    /\ Opened /\ Rejected
    /\ call.cfg = [Config0 EXCEPT !.Org = "A", !.LoadAllGroups = TRUE,
                                  !.PreferredEmailDomain = <<"*">>]

\* C25: the connector that Open returned satisfies, in every state that
\* sequences of LoginURL, HandleCallback and Refresh reach: the legacy org
\* and the org list are not both set; a trust root is configured only
\* with a host name; the host name has no slash; the team-name projection
\* is empty, name, slug or both; the glob does not end in a star; and the
\* API base is the public endpoint without a host name and
\* https://<host>/api/v3 with one.
C25_ConnectorInvariant ==
    pc \notin {"closed", "failed"} =>
        /\ ~(c.org # "" /\ c.orgs # <<>>)
        /\ c.rootCA # "" => c.hostName # <<>>
        /\ \A j \in 1..Len(c.hostName) : c.hostName[j] # "/"
        /\ c.teamNameField \in {"", "name", "slug", "both"}
        /\ c.preferredEmailDomain # <<>> =>
                c.preferredEmailDomain[Len(c.preferredEmailDomain)] # "*"
        /\ c.apiURL = IF c.hostName = <<>> THEN "https://api.github.com"
                      ELSE "https://" \o Join(c.hostName) \o "/api/v3"

\* a refresh on a connector of an enterprise host, with a trust root, has
\* gone as far as its team fetch
C25_Witness ==
    /\ call.op = "Refresh" /\ pc = "teamsForOrg" /\ Len(log) = 2
    /\ c.hostName = GheDotCorp /\ c.rootCA = "ca.pem" /\ c.org = "A"
    /\ c.apiURL = "https://ghe.corp/api/v3"
    /\ log[2].url = "https://ghe.corp/api/v3/user/emails"

-----------------------------------------------------------------------------
(* Specification SpecLive: one crawl that is never cut short.  The pages   *)
(* are empty and carry any Link header.  The history kept for the checks   *)
(* (log, and the count of GETs in loc.gets) is not state of the program:   *)
(* Forget drops it when the count is at its bound, so that the crawl can   *)
(* go on for as long as the code goes on.  The loop of a crawl issues its  *)
(* next GET as soon as it holds the next URL: weak fairness of the steps.  *)

Forget ==
    /\ pc \in CrawlOps
    /\ loc.gets = MaxGets
    /\ loc' = [loc EXCEPT !.gets = 0]
    /\ log' = <<>>
    /\ UNCHANGED <<c, call, pc, ret, resp, wf, session, other>>

NextLive ==
    \/ GetTeamsForOrg(Responses({<<>>}, LinkHeaders(CrawlBase("teamsForOrg"))))
    \/ GetUserOrgs(Responses({<<>>}, LinkHeaders(CrawlBase("userOrgs"))))
    \/ GetUserOrgTeams(Responses({<<>>}, LinkHeaders(CrawlBase("userOrgTeams"))))
    \/ GetUserEmail(Responses({<<>>}, LinkHeaders(CrawlBase("userEmail"))))
    \/ Forget

SpecLive == InitCrawl /\ [][NextLive]_vars /\ WF_vars(NextLive)

\* C26 as stated: whatever the upstream answers, Link headers of any
\* shape included, a crawl issues finitely many GETs and returns.
C26_AsStated == <>(pc = "done")

\* a crawl has fetched the same URL as many times as the history counts,
\* got the same Link header each time, and holds that URL as the next one
C26_Witness ==
    /\ pc \in CrawlOps /\ Len(log) = MaxGets
    /\ \A j \in 1..Len(log) : log[j].url = CrawlBase(call.op)
    /\ loc.apiURL = CrawlBase(call.op)
    /\ reNext(resp.links) = CrawlBase(call.op)
    /\ reLast(resp.links) = PageURL(CrawlBase(call.op), 2)

-----------------------------------------------------------------------------
(* Claims about the order of the calls in org-list mode, checked under     *)
(* SpecOrgs.                                                               *)

\* the membership checks among the first j calls of the log
ChecksUpTo(j) == {m \in 1..j : log[m].kind = "userInOrg"}

\* the place in the configured list of the org that call j is for: the
\* org of the last membership check up to j
OrgOf(j) == Cardinality(ChecksUpTo(j))

\* the place in the log of the last membership check up to j
LastCheck(j) == CHOOSE m \in ChecksUpTo(j) : \A n \in ChecksUpTo(j) : n <= m

\* The calls form one block per org, the blocks in list order: the n-th
\* membership check is the check of the n-th org, and the GETs after it
\* are the pages of one team fetch, from the first page on.
InListOrder ==
    \A j \in 1..Len(log) :
        /\ OrgOf(j) \in 1..Len(c.orgs)
        /\ log[j].kind = "userInOrg" => log[j].url = MemberURL(OrgOf(j))
        /\ log[j].kind = "get" =>
                log[j].url = PageURL(c.apiURL \o "/user/teams", j - LastCheck(j))

\* C27 as stated: org-list mode processes the orgs in list order; the
\* membership check of an org precedes any team fetch for it; a team
\* fetch is issued only for an org where membership was confirmed and a
\* team allow-list is configured; no call for a later org is issued
\* before the calls for an earlier org have completed.
C27_AsStated ==
    /\ InListOrder
    /\ \A j \in 1..Len(log) :
        log[j].kind = "get" =>
            /\ log[LastCheck(j)].got = StatusNoContent
            /\ c.orgs[OrgOf(j)].Teams # <<>>

\* C27, amended: the same, with a team fetch issued for every org where
\* membership was confirmed, with or without a team allow-list, and for
\* no other org.
C27_CallOrder ==
    /\ InListOrder
    /\ \A j \in 1..Len(log) :
        log[j].kind = "get" => log[LastCheck(j)].got = StatusNoContent
    /\ \A j \in 1..Len(log) :
        (log[j].kind = "userInOrg" /\ log[j].got = StatusNoContent) =>
            \/ j = Len(log) /\ pc = "teamsForOrg"
            \/ j < Len(log) /\ log[j + 1].kind = "get"

\* not a member of the first org; the teams of the second org, which has
\* no allow-list, fetched in two pages; then the check of the third org
C27_Witness ==
    /\ Len(c.orgs) = 3 /\ Len(log) = 5
    /\ log[1].kind = "userInOrg" /\ log[1].got = StatusNotFound
    /\ log[2].kind = "userInOrg" /\ log[2].got = StatusNoContent
    /\ c.orgs[2].Teams = <<>>
    /\ log[3].kind = "get" /\ log[4].kind = "get"
    /\ log[5].kind = "userInOrg" /\ log[5].url = MemberURL(3)

-----------------------------------------------------------------------------
(* Claims about the modes of group resolution, checked under SpecGroups.   *)

\* the policy that the precedence selects
PolicyByPrecedence ==
    CASE c.orgs # <<>> -> "org-list"
      [] c.orgs = <<>> /\ c.org # "" -> "legacy"
      [] c.orgs = <<>> /\ c.org = "" /\ call.s.Groups /\ c.loadAllGroups -> "load-all"
      [] OTHER -> "none"

OrgsCall(e) == e.kind = "get" /\ e.url \in PageURLs(c.apiURL \o "/user/orgs")

TeamsCall(e) == e.kind = "get" /\ e.url \in PageURLs(c.apiURL \o "/user/teams")

\* The policies at work in the resolution, by the calls it has issued or
\* is about to issue: membership checks are org-list mode, the fetch of
\* the user's orgs is load-all mode, a team fetch with nothing before it
\* is legacy mode, and a return without any call is no policy.
PoliciesApplied ==
    {p \in {"org-list", "legacy", "load-all", "none"} :
        CASE p = "org-list" ->
                pc = "userInOrg" \/ \E j \in 1..Len(log) : log[j].kind = "userInOrg"
          [] p = "load-all" ->
                pc \in {"userOrgs", "userOrgTeams"} \/ \E j \in 1..Len(log) : OrgsCall(log[j])
          [] p = "legacy" ->
                IF log = <<>> THEN pc = "teamsForOrg" ELSE TeamsCall(log[1])
          [] OTHER -> log = <<>> /\ pc = "done"}

\* C28: group resolution applies exactly one policy, by precedence:
\* org-list mode with a non-empty org list, otherwise legacy mode with a
\* legacy org, otherwise load-all mode with the groups scope and the
\* load-all flag, otherwise none (no call, empty groups, no error).  So
\* the flag changes nothing under a filter or without the groups scope.
C28_OnePolicyByPrecedence ==
    /\ PoliciesApplied = {PolicyByPrecedence}
    /\ PolicyByPrecedence = "none" => ret = [val |-> <<>>, err |-> nil]

\* org-list mode, to the end, with the load-all flag set and the groups
\* scope requested
C28_Witness ==
    /\ c.orgs # <<>> /\ c.loadAllGroups /\ call.s.Groups
    /\ pc = "done" /\ ret.err = nil /\ ret.val = <<"A:X">>
    /\ log[1].kind = "userInOrg" /\ Len(log) = 3

\* every call of the resolution was answered with a page
AllAnswered == \A j \in 1..Len(log) : Answered(log[j])

\* C29: legacy mode issues no membership check; its groups are the
\* projected names of the user's teams whose org login is the configured
\* org, in crawl order; and with no team in that org the resolution
\* succeeds with an empty list.
C29_LegacyMode ==
    PolicyByPrecedence = "legacy" =>
        /\ \A j \in 1..Len(log) : TeamsCall(log[j])
        /\ (pc = "done" /\ AllAnswered) =>
            /\ ret.err = nil
            /\ ret.val = ProjectAll(TeamsIn(Fetched(c.apiURL \o "/user/teams"), c.org))

\* the user has a team, in another org than the configured one: success
\* with no group
C29_Witness ==
    /\ PolicyByPrecedence = "legacy" /\ c.org = "B"
    /\ pc = "done" /\ AllAnswered
    /\ Fetched(c.apiURL \o "/user/teams") = <<TeamAX, TeamAY>>
    /\ ret = [val |-> <<>>, err |-> nil]

\* C30: load-all mode returns, for each org of the user in crawl order,
\* the org login and then org:team for each projected name of the user's
\* teams under that org; an org without teams still gives its org group,
\* and a team whose org was not fetched gives no group.
C30_LoadAllMode ==
    (PolicyByPrecedence = "load-all" /\ pc = "done" /\ AllAnswered) =>
        /\ ret.err = nil
        /\ ret.val =
            LET orgs == Fetched(c.apiURL \o "/user/orgs")
                teams == Fetched(c.apiURL \o "/user/teams")
            IN  Flatten([k \in 1..Len(orgs) |->
                    <<orgs[k].Login>>
                    \o Prefixed(orgs[k].Login, ProjectAll(TeamsIn(teams, orgs[k].Login)))])
        /\ \A j \in 1..Len(log) : log[j].kind = "get"

\* orgs B and A fetched, and teams X and Y of A on two pages: B alone,
\* then A with both of its teams
C30_Witness ==
    /\ PolicyByPrecedence = "load-all" /\ pc = "done" /\ AllAnswered
    /\ c.teamNameField = "slug"
    /\ Fetched(c.apiURL \o "/user/orgs") = <<[Login |-> "B"], [Login |-> "A"]>>
    /\ Fetched(c.apiURL \o "/user/teams") = <<TeamAX, TeamAY>>
    /\ ret.val = <<"B", "A", "A:x", "A:y">>

\* a team of org B while only org A was fetched: no group for it
C30_WitnessForeignTeam ==
    /\ PolicyByPrecedence = "load-all" /\ pc = "done" /\ AllAnswered
    /\ Fetched(c.apiURL \o "/user/orgs") = <<[Login |-> "A"]>>
    /\ Fetched(c.apiURL \o "/user/teams") = <<TeamBY, TeamAX>>
    /\ ret.val = <<"A", "A:X">>

-----------------------------------------------------------------------------
(* Claims about the private-emails crawl, checked under SpecEmail.         *)

\* the shortcut of the synthesized address applies to the connector
ShortcutApplies == c.noreplyPrivateEmail /\ (c.hostName = <<>> \/ c.hostName = GithubDotCom)

\* the private-emails endpoint is asked, or about to be
EmailsCrawled == pc = "userEmail" \/ \E j \in 1..Len(log) : EmailsCall(log[j])

\* C31: when the shortcut does not apply and the profile was fetched, the
\* private-emails endpoint is crawled exactly when the profile's public
\* e-mail is empty or a preferred-domain filter is configured; otherwise
\* user returns the profile with its public e-mail after the one call.
C31_CrawlIffNeeded ==
    (call.op = "user" /\ ~ShortcutApplies /\ Len(log) >= 1 /\ Answered(log[1])) =>
        /\ EmailsCrawled = (Profile.Email = <<>> \/ c.preferredEmailDomain # <<>>)
        /\ ~EmailsCrawled =>
              /\ pc = "done" /\ Len(log) = 1
              /\ ret = [val |-> Profile, err |-> nil]

\* a profile with a public e-mail under a preferred-domain filter: the
\* crawl ran and its match replaced the public e-mail
C31_Witness ==
    /\ UserReturned /\ ~ShortcutApplies /\ c.preferredEmailDomain = StarDotExampleDotCom
    /\ Profile.Email = AtExample
    /\ Len(log) = 2 /\ EmailsCall(log[2])
    /\ ret.val.Email = AtMail

\* the address of the verified primary e-mail seen first / last in crawl order
FirstPrimarySeen == IF PrimarySeen = <<>> THEN <<>> ELSE PrimarySeen[1].Email

LastPrimarySeen == IF PrimarySeen = <<>> THEN <<>> ELSE PrimarySeen[Len(PrimarySeen)].Email

\* the crawl is between two pages, none of them cut short
MidCrawl == call.op = "user" /\ pc = "userEmail" /\ loc.gets > 0

\* the crawl completed and fell back on the verified primary e-mail
FellBackOnPrimary == EmailCrawlCompleted /\ PreferredSeen = <<>> /\ PrimarySeen # <<>>

\* C32 as stated: the fallback tracked by the crawl is the first e-mail, in
\* crawl order across all pages, that is verified and primary; a later
\* one never replaces it.
C32_AsStated ==
    /\ MidCrawl => loc.primaryEmail.Email = FirstPrimarySeen
    /\ FellBackOnPrimary => ret.err = nil /\ ret.val.Email = FirstPrimarySeen

\* C32: the fallback tracked by the crawl is the last e-mail, in crawl
\* order across all pages, that is verified and primary: each later one
\* replaces the one held.
C32_LastVerifiedPrimary ==
    /\ MidCrawl => loc.primaryEmail.Email = LastPrimarySeen
    /\ FellBackOnPrimary => ret.err = nil /\ ret.val.Email = LastPrimarySeen

\* two verified primary e-mails on two pages: the second is returned
C32_Witness ==
    /\ FellBackOnPrimary /\ c.hostName = <<>> /\ Len(log) = 3
    /\ Len(PrimarySeen) = 2
    /\ PrimarySeen[1].Email = AtExample /\ PrimarySeen[2].Email = AtOther
    /\ ret.val.Email = AtOther

invalidFormat == Errorf("github: invalid format email is detected")

\* every call so far was answered, and a page of the private-emails
\* endpoint held an address without "@"
MalformedSeen ==
    /\ call.op = "user" /\ Len(log) >= 2
    /\ \A j \in 1..Len(log) : Answered(log[j])
    /\ \E k \in 1..Len(EmailsSeen) : ~HasAt(EmailsSeen[k])

\* C33 as stated: an address without "@" aborts the crawl with the
\* invalid-format error, whether or not a preferred-domain filter is
\* configured and whatever usable e-mails were seen before it.
C33_AsStated == MalformedSeen => pc = "done" /\ ret.err = invalidFormat

\* C33: under a preferred-domain filter an address without "@" aborts the
\* crawl with the invalid-format error whatever usable e-mails were seen
\* before it; without a filter the address is not looked at: the crawl goes
\* on to its last page and ends in the verified primary e-mail or in the
\* no-usable-email error.
C33_AbortsUnderFilter ==
    MalformedSeen =>
        IF c.preferredEmailDomain # <<>>
        THEN pc = "done" /\ ret.err = invalidFormat
        ELSE /\ pc \in {"userEmail", "done"}
             /\ pc = "userEmail" => loc.gets = Len(log) - 1
             /\ pc = "done" =>
                   IF PrimarySeen = <<>> THEN ret.err = noUsableEmail
                   ELSE ret.err = nil /\ ret.val.Email = LastPrimarySeen

\* under a filter that the first page's verified primary e-mail matches,
\* the address without "@" on the second page fails the call
C33_Witness ==
    /\ MalformedSeen /\ c.preferredEmailDomain = ExampleDotCom /\ Len(log) = 3
    /\ PreferredSeen # <<>> /\ PreferredSeen[1].Email = AtExample
    /\ EmailsSeen[2].Email = NoAt
    /\ pc = "done" /\ ret.err = invalidFormat

\* without a filter the address without "@" passes and the call succeeds
C33_WitnessNoFilter ==
    /\ MalformedSeen /\ c.preferredEmailDomain = <<>> /\ Len(log) = 3
    /\ EmailsSeen[1].Email = AtExample /\ EmailsSeen[2].Email = NoAt
    /\ pc = "done" /\ ret.err = nil /\ ret.val.Email = AtExample

AddressesOf(emails) == [k \in 1..Len(emails) |-> emails[k].Email]

\* the e-mails the crawl may choose: all of them with a host name
\* configured, else the ones the upstream marks verified
Eligible(email) == IF c.hostName # <<>> THEN TRUE ELSE email.Verified

EligiblePrimary == SelectSeq(EmailsSeen, LAMBDA email : Eligible(email) /\ email.Primary)

EligiblePreferred ==
    SelectSeq(EmailsSeen, LAMBDA email :
        /\ c.preferredEmailDomain # <<>>
        /\ Eligible(email) /\ HasAt(email) /\ GlobMatches(DomainOf(email)))

\* C34: with a host name configured every e-mail of the private-emails
\* endpoint is taken as verified: a primary e-mail, verified upstream or
\* not, becomes the fallback, and an e-mail whose domain matches the
\* filter, verified upstream or not, is a preferred match; with no host
\* name only e-mails verified upstream are held or returned.
C34_VerifiedOnHost ==
    /\ MidCrawl =>
          /\ loc.primaryEmail.Email =
                 (IF EligiblePrimary = <<>> THEN <<>>
                  ELSE EligiblePrimary[Len(EligiblePrimary)].Email)
          /\ AddressesOf(loc.preferredEmails) = AddressesOf(EligiblePreferred)
          /\ c.hostName = <<>> =>
                /\ loc.primaryEmail.Email # <<>> => loc.primaryEmail.Verified
                /\ \A k \in 1..Len(loc.preferredEmails) :
                       \E i \in 1..Len(EmailsSeen) :
                           EmailsSeen[i] = loc.preferredEmails[k] /\ EmailsSeen[i].Verified
    /\ EmailCrawlCompleted =>
          IF EligiblePreferred # <<>>
          THEN ret.err = nil /\ ret.val.Email = EligiblePreferred[1].Email
          ELSE IF EligiblePrimary # <<>>
          THEN ret.err = nil /\ ret.val.Email = EligiblePrimary[Len(EligiblePrimary)].Email
          ELSE ret.err = noUsableEmail

\* on an enterprise host, with no filter, the one e-mail served is primary
\* and unverified: it is returned
C34_Witness ==
    /\ EmailCrawlCompleted /\ c.hostName = GheDotCorp /\ c.preferredEmailDomain = <<>>
    /\ Len(log) = 2 /\ EmailsSeen = <<Email(AtMail, FALSE, TRUE)>>
    /\ ret.err = nil /\ ret.val.Email = AtMail

\* on an enterprise host an unverified e-mail of the second page matches
\* the filter and wins over the verified primary e-mail of the first
C34_WitnessPreferred ==
    /\ EmailCrawlCompleted /\ c.hostName = GheDotCorp
    /\ c.preferredEmailDomain = StarDotExampleDotCom
    /\ Len(log) = 3
    /\ EmailsSeen = <<Email(AtExample, TRUE, TRUE), Email(AtMail, FALSE, TRUE)>>
    /\ ret.err = nil /\ ret.val.Email = AtMail

\* with no host name the same unverified e-mail is not chosen
C34_WitnessNoHost ==
    /\ EmailCrawlCompleted /\ c.hostName = <<>> /\ c.preferredEmailDomain = <<>>
    /\ Len(log) = 2 /\ EmailsSeen = <<Email(AtMail, FALSE, TRUE)>>
    /\ ret.err = noUsableEmail

-----------------------------------------------------------------------------
(* The trust root of the outbound calls, checked under Spec.               *)

\* every outbound call of the running operation went through a client
\* that trusts the configured root certificate and nothing else
OnlyTrustedRoot == \A j \in 1..Len(log) : log[j].rootCAs = {c.rootCA}

\* C35 as stated: with a trust-root certificate configured, every outbound
\* call of HandleCallback and of Refresh is made through the HTTP client
\* that trusts only that root, never through one with the default trust
\* store.
C35_AsStated ==
    (c.rootCA # "" /\ call.op \in {"HandleCallback", "Refresh"}) => OnlyTrustedRoot

\* what holds of the code: the calls of HandleCallback, the token exchange
\* included, all go through the client of the configured root
C35_HandleCallbackTrustsRoot ==
    (c.rootCA # "" /\ call.op = "HandleCallback") => OnlyTrustedRoot

\* a login under the configured root that went as far as the orgs
C35_WitnessHandleCallback ==
    /\ c.rootCA = "ca.pem" /\ call.op = "HandleCallback" /\ Len(log) >= 3
    /\ log[1].kind = "Exchange" /\ OnlyTrustedRoot

\* a refresh under the configured root whose profile request went
\* through a client with the default trust store
C35_Witness ==
    /\ c.rootCA = "ca.pem" /\ call.op = "Refresh" /\ Len(log) >= 1
    /\ log[1].kind = "get" /\ log[1].url = c.apiURL \o "/user"
    /\ log[1].rootCAs = {}

====
